---- MODULE Spec2Model ----
(***************************************************************************)
(* The Ledger's transactional write path of the transactions-microservice: *)
(* TransactionsService.createTransaction, the retry loop                   *)
(* createTransactionWithRetry and the Serializable DB transaction          *)
(* createTransactionWithLock, run by concurrent request handlers against   *)
(* one PostgreSQL database (tables transactions, accounts,                 *)
(* idempotency_keys), together with the clock and the sweeper              *)
(* cleanupExpiredKeys.                                                     *)
(*                                                                         *)
(* One request handler is one slot r.  Inside a DB transaction every read  *)
(* is a read of the snapshot taken by the handler's first statement, the   *)
(* handler's own writes stay private until Commit, a write to a row that   *)
(* another open transaction has written waits for it, and a write to a row *)
(* that changed after the snapshot aborts with a serialization failure     *)
(* (SQL state 40001, Prisma P2034).                                        *)
(***************************************************************************)
EXTENDS Integers, Sequences, FiniteSets, TLC

VARIABLES
    transactions,     \* table transactions: the committed log, in commit order
    accounts,         \* table accounts: user_id -> row
    idempotencyKeys,  \* table idempotency_keys: key -> row
    now,              \* the clock (new Date()), in hours
    users,            \* table users of Identity: id -> row
    req               \* the request handlers: slot -> request and its position

vars == <<transactions, accounts, idempotencyKeys, now, users, req>>
db == <<transactions, accounts, idempotencyKeys>>

---------------------------------------------------------------------------
(* Bounds of the model *)

NumReq == 2       \* request handlers running concurrently in Spec
MaxTx == 2        \* Transaction rows, committed or being written
MaxAmount == 2    \* largest amount a request carries
MaxTicks == 2     \* clock advances in one behaviour
TickHours == 24   \* hours per clock advance
NumSame == 3      \* requests fired concurrently with one key (SpecSameKey)
NumFired == 11    \* requests fired concurrently at one user (SpecFired)
SeedUnits == 10   \* seeded balance of SpecFired, in multiples of the amount
MaxAuthTx == 1    \* Transaction rows committed in SpecAuth

(* Program constants *)

maxAttempts == 10             \* createTransactionWithRetry(params, maxAttempts = 10)
FINAL_TTL_HOURS == 24         \* finalizeIdempotency: setHours(getHours() + 24)
PENDING_TTL_HOURS == 2160     \* checkIdempotency: setDate(getDate() + 90), in hours
BACKOFF_BASE_MS == 100       \* computeBackoffMs: Math.pow(2, attempt - 1) * 100
BACKOFF_JITTER_MS == 50      \* computeBackoffMs: Math.random() * 50
RandomSteps == 4             \* Math.random() is one of 0/4, 1/4, 2/4, 3/4
HTTP_OK == 200
HTTP_BAD_REQUEST == 400
HTTP_INTERNAL_ERROR == 500
HTTP_CREATED == 201           \* @Post('validate-user-jwt') without @HttpCode
HTTP_UNAUTHORIZED == 401
HTTP_NOT_FOUND == 404         \* NotFoundException
HTTP_CONFLICT == 409          \* ConflictException
PASSWORD_MIN_LENGTH == 6      \* @MinLength(6) of password      \* UnauthorizedException

Users == {"u1", "u2"}
Keys == {"k1"}
NoKey == "undefined"
Undefined == "undefined"
CREDIT == "CREDIT"
DEBIT == "DEBIT"
TransactionType == {CREDIT, DEBIT}
Slots == 1..NumFired
Amounts == 0..MaxAmount

PENDING == <<"__PENDING__">>
PRISMA_SERIALIZATION_ERROR_CODE == "P2034"
PRISMA_UNIQUE_ERROR_CODE == "P2002"
PRISMA_VALIDATION_ERROR == "PrismaClientValidationError"

---------------------------------------------------------------------------
(* Rows *)

NoAccount == [exists |-> FALSE, balance |-> 0, version |-> 0]
NoIdempotencyKey == [exists |-> FALSE, response |-> <<>>, expiresAt |-> 0]
NoUser == [state |-> "free", email |-> "", firstName |-> "", lastName |-> "", password |-> <<>>]
NoDto == [email |-> "", first_name |-> "undefined", last_name |-> "undefined",
          password |-> <<>>]
NoBody == [id |-> 0, user_id |-> "", amount |-> 0, type |-> ""]
NoDetails == [currentBalance |-> 0, requestedAmount |-> 0, shortage |-> 0]

(* A JWT, by what its verification looks at: the secret that signed it,     *)
(* whether its exp has passed, and its claims sub, email and internal.      *)
JWT_SECRET == "JWT_SECRET"
INTERNAL_JWT_SECRET == "INTERNAL_JWT_SECRET"
Secrets == {JWT_SECRET, INTERNAL_JWT_SECRET, "ANOTHER_SECRET"}
Tokens ==
    [secret : Secrets, expired : BOOLEAN, sub : Users \cup {Undefined},
     email : BOOLEAN, internal : BOOLEAN]

(* No bearer token in the Authorization header. *)
NoToken ==
    [secret |-> "", expired |-> FALSE, sub |-> Undefined, email |-> FALSE, internal |-> FALSE]

(* No answer of ValidateExternalToken. *)
NoAnswer == [status |-> 0, valid |-> FALSE, user_id |-> Undefined]

Idle ==
    [pc |-> "idle", userId |-> "", type |-> "", amount |-> 0, idempotencyKey |-> NoKey,
     attempt |-> 0, snapAccount |-> NoAccount, snapKey |-> NoIdempotencyKey,
     status |-> 0, error |-> "", body |-> NoBody, details |-> NoDetails,
     kind |-> "", token |-> NoToken, internalToken |-> NoToken, bodyUserId |-> "",
     answer |-> NoAnswer, startedAt |-> 0, filter |-> Undefined, list |-> <<>>,
     transport |-> "", count |-> 0, target |-> "", dto |-> NoDto, view |-> <<>>,
     backoff |-> 0]

(* JSON.stringify of the response envelope {id, user_id, amount, type}: the *)
(* text, as its sequence of member names and values.                        *)
JSON_stringify(o) ==
    <<"id", o.id, "user_id", o.user_id, "amount", o.amount, "type", o.type>>

(* JSON.parse: the object of a text that is an envelope; a SyntaxError for  *)
(* any other text (such as __PENDING__).                                    *)
JSON_parse(text) ==
    IF Len(text) = 8 /\ text[1] = "id" /\ text[3] = "user_id"
       /\ text[5] = "amount" /\ text[7] = "type"
    THEN [ok |-> TRUE,
          value |-> [id |-> text[2], user_id |-> text[4], amount |-> text[6], type |-> text[8]]]
    ELSE [ok |-> FALSE, value |-> NoBody]

RECURSIVE SumAmounts(_, _, _)
(* Sum of the amounts of the rows of log for userId with the given type.    *)
SumAmounts(log, userId, type) ==
    IF log = <<>> THEN 0
    ELSE (IF Head(log).userId = userId /\ Head(log).type = type THEN Head(log).amount ELSE 0)
         + SumAmounts(Tail(log), userId, type)

---------------------------------------------------------------------------
(* The write protocol *)

(* calculateNewBalance: the proposed balance. *)
ProposedBalance(currentBalance, type, amount) ==
    IF type = CREDIT THEN currentBalance + amount ELSE currentBalance - amount

(* A posting path without the balance check. *)
InsufficientBalanceNever(newBalance) == FALSE

(* A balance check that lets a balance of -1 pass. *)
InsufficientBalanceOffByOne(newBalance) == newBalance < 0 - 1

(* calculateNewBalance: throws INSUFFICIENT_BALANCE when this holds. *)
InsufficientBalance(newBalance) == newBalance < 0

(* readCurrentAccount: balance and version of the snapshot row, (0, 0) when absent. *)
CurrentBalance(r) == IF req[r].snapAccount.exists THEN req[r].snapAccount.balance ELSE 0
CurrentVersion(r) == IF req[r].snapAccount.exists THEN req[r].snapAccount.version ELSE 0
NewBalance(r) == ProposedBalance(CurrentBalance(r), req[r].type, req[r].amount)

(* An upsert whose update keeps the version it read. *)
UpsertedAccountSameVersion(existing, newBalance, currentVersion) ==
    IF existing.exists
    THEN [exists |-> TRUE, balance |-> newBalance, version |-> currentVersion]
    ELSE [exists |-> TRUE, balance |-> newBalance, version |-> 1]

(* processAccount: the row the upsert writes. *)
UpsertedAccount(existing, newBalance, currentVersion) ==
    IF existing.exists
    THEN [exists |-> TRUE, balance |-> newBalance, version |-> currentVersion + 1]
    ELSE [exists |-> TRUE, balance |-> newBalance, version |-> 1]

(* A probe that never takes an existing key for a duplicate. *)
IsDuplicateNever(existing) == FALSE

(* checkIdempotency: a record that makes the request a duplicate. *)
IsDuplicate(existing) == existing.exists /\ existing.expiresAt > now

(* A posting path without the amount check. *)
InvalidAmountNever(amount) == FALSE

(* An amount check that lets zero pass. *)
InvalidAmountNegativeOnly(amount) == amount < 0

(* TransactionsService.createTransaction: the amount check. *)
InvalidAmount(amount) == amount <= 0

(* A retry loop that retries every error. *)
IsSerializationFailureAnyError(code) == TRUE

(* A retry loop that retries no error. *)
IsSerializationFailureNever(code) == FALSE

(* createTransactionWithRetry: the errors that are retried. *)
IsSerializationFailure(code) == code = PRISMA_SERIALIZATION_ERROR_CODE

(* The rows an open DB transaction has written and not yet committed. *)
HoldsKey(r, k) ==
    /\ k # NoKey
    /\ req[r].idempotencyKey = k
    /\ req[r].pc \in {"read", "upsert", "commit"}

(* An upsert that does not wait for the open DB transaction that wrote the  *)
(* user's Account row (a check-then-insert of two statements).              *)
HoldsAccountNever(r, u) == FALSE

(* The Account row of user u is written by the open DB transaction of r. *)
HoldsAccount(r, u) == req[r].userId = u /\ req[r].pc = "commit"

(* A finished request. *)
Done(r, status, error, body, details) ==
    [req[r] EXCEPT !.pc = "done", !.status = status, !.error = error,
                   !.body = body, !.details = details, !.startedAt = 0,
                   !.snapAccount = NoAccount, !.snapKey = NoIdempotencyKey]

(* createTransactionWithRetry, the catch block: the DB transaction of slot  *)
(* A catch that retries a serialization failure whatever the attempt. *)
CaughtWithoutBudget(r, code) ==
    IF IsSerializationFailure(code)
    THEN [req[r] EXCEPT !.pc = "backoff", !.startedAt = 0,
                        !.snapAccount = NoAccount, !.snapKey = NoIdempotencyKey]
    ELSE Done(r, HTTP_INTERNAL_ERROR, code, NoBody, NoDetails)

(* r was rolled back with a database error code.                            *)
Caught(r, code) ==
    IF IsSerializationFailure(code) /\ req[r].attempt < maxAttempts
    THEN [req[r] EXCEPT !.pc = "backoff", !.startedAt = 0,
                        !.snapAccount = NoAccount, !.snapKey = NoIdempotencyKey]
    ELSE Done(r, HTTP_INTERNAL_ERROR, code, NoBody, NoDetails)

(* A duplicate answered with the amount and type of its own request. *)
ReplayedOwnBody(r, cachedResponse) ==
    IF JSON_parse(cachedResponse).ok
    THEN Done(r, HTTP_OK, "IDEMPOTENCY_DUPLICATE",
              [JSON_parse(cachedResponse).value EXCEPT !.amount = req[r].amount,
                                                       !.type = req[r].type],
              NoDetails)
    ELSE Done(r, HTTP_INTERNAL_ERROR, "SyntaxError", NoBody, NoDetails)

(* TransactionsService.createTransaction, the catch of IDEMPOTENCY_DUPLICATE. *)
Replayed(r, cachedResponse) ==
    IF JSON_parse(cachedResponse).ok
    THEN Done(r, HTTP_OK, "IDEMPOTENCY_DUPLICATE", JSON_parse(cachedResponse).value, NoDetails)
    ELSE Done(r, HTTP_INTERNAL_ERROR, "SyntaxError", NoBody, NoDetails)

(* createTransactionWithRetry, the catch of an Error thrown by the body of  *)
(* the DB transaction with a message and no code: retried when the message  *)
(* is that of a serialization failure, re-thrown to the service otherwise,  *)
(* which answers with the outcome.                                          *)
Rethrown(r, message, outcome) ==
    IF IsSerializationFailure(message) /\ req[r].attempt < maxAttempts
    THEN [req[r] EXCEPT !.pc = "backoff", !.startedAt = 0,
                        !.snapAccount = NoAccount, !.snapKey = NoIdempotencyKey]
    ELSE outcome

(* The requests whose handler has not answered yet. *)
InFlight == {r \in Slots : req[r].pc \notin {"idle", "done"}}

(* A handler that serves no request. *)
Free(r) == req[r].pc \in {"idle", "done"}

(* A client submits POST /transactions, served by the free handler with the *)
(* lowest number: createTransaction up to the first statement of the DB     *)
(* transaction.                                                             *)
Submit(r, userId, type, amount, key) ==
    /\ Free(r)
    /\ \A o \in 1..(r - 1) : ~Free(o)
    /\ Len(transactions) + Cardinality(InFlight) < MaxTx
    /\ LET fresh == [Idle EXCEPT !.userId = userId, !.type = type, !.amount = amount,
                                 !.idempotencyKey = key]
       IN req' = [req EXCEPT ![r] =
                    IF InvalidAmount(amount)
                    THEN [fresh EXCEPT !.pc = "done", !.status = HTTP_BAD_REQUEST,
                                       !.error = "INVALID_AMOUNT"]
                    ELSE [fresh EXCEPT !.pc = "begin", !.attempt = 1]]
    /\ UNCHANGED <<transactions, accounts, idempotencyKeys, now, users>>

(* checkIdempotency, the probe: the first statement of the DB transaction   *)
(* takes the snapshot; a live record makes the request a duplicate.         *)
Probe(r) ==
    /\ req[r].pc = "begin"
    /\ LET k == req[r].idempotencyKey
           existing == IF k = NoKey THEN NoIdempotencyKey ELSE idempotencyKeys[k]
           snap == [req[r] EXCEPT !.snapAccount = IF req[r].userId \in Users
                                                         THEN accounts[req[r].userId]
                                                         ELSE NoAccount,
                                  !.snapKey = existing, !.startedAt = now]
       IN req' = [req EXCEPT ![r] =
                    IF k = NoKey THEN [snap EXCEPT !.pc = "read"]
                    ELSE IF IsDuplicate(existing)
                    THEN Rethrown(r, "IDEMPOTENCY_DUPLICATE",
                                  Replayed(r, existing.response))
                    ELSE [snap EXCEPT !.pc = "reserve"]]
    /\ UNCHANGED <<transactions, accounts, idempotencyKeys, now, users>>

(* An idempotency_keys table without the unique index on key. *)
KeyTakenWithoutIndex(committed) == FALSE

(* The unique index idempotency_keys_key_key: a committed row of the key. *)
KeyTaken(committed) == committed.exists

(* checkIdempotency, the reservation: insert the __PENDING__ row.  The      *)
(* unique index on key makes the insert wait for an open transaction that   *)
(* inserted the key; a committed row of the key fails the insert: with a    *)
(* serialization failure when the row was committed after the snapshot,     *)
(* with the unique violation P2002 when the snapshot already held it.       *)
Reserve(r) ==
    /\ req[r].pc = "reserve"
    /\ \A o \in Slots \ {r} : ~HoldsKey(o, req[r].idempotencyKey)
    /\ LET committed == idempotencyKeys[req[r].idempotencyKey]
       IN req' = [req EXCEPT ![r] =
                    IF ~KeyTaken(committed) THEN [req[r] EXCEPT !.pc = "read"]
                    ELSE IF committed = req[r].snapKey THEN Caught(r, PRISMA_UNIQUE_ERROR_CODE)
                    ELSE Caught(r, PRISMA_SERIALIZATION_ERROR_CODE)]
    /\ UNCHANGED <<transactions, accounts, idempotencyKeys, now, users>>

(* readCurrentAccount, calculateNewBalance and transaction.create.  A       *)
(* findUnique whose userId is undefined is refused by the client with a     *)
(* validation error.                                                        *)
ReadAndAppend(r) ==
    /\ req[r].pc = "read"
    /\ req' = [req EXCEPT ![r] =
                 IF req[r].userId = Undefined
                 THEN Caught(r, PRISMA_VALIDATION_ERROR)
                 ELSE IF InsufficientBalance(NewBalance(r))
                 THEN Rethrown(r, "INSUFFICIENT_BALANCE",
                               [req[r] EXCEPT !.pc = "insufficient", !.startedAt = 0,
                                              !.snapAccount = NoAccount,
                                              !.snapKey = NoIdempotencyKey])
                 ELSE [req[r] EXCEPT !.pc = "upsert"]]
    /\ UNCHANGED <<transactions, accounts, idempotencyKeys, now, users>>

(* An upsert that does not notice a concurrent committed write (the DB      *)
(* transaction running below Serializable).                                 *)
AccountConflictUnnoticed(r) == FALSE

(* The Account row of the user changed after the snapshot of slot r. *)
AccountConflict(r) == accounts[req[r].userId] # req[r].snapAccount

(* processAccount: the upsert waits for an open transaction that wrote the  *)
(* user's Account row, and fails with a serialization failure when the row  *)
(* changed after the snapshot.                                              *)
ProcessAccount(r) ==
    /\ req[r].pc = "upsert"
    /\ \A o \in Slots \ {r} : ~HoldsAccount(o, req[r].userId)
    /\ req' = [req EXCEPT ![r] =
                 IF AccountConflict(r) THEN Caught(r, PRISMA_SERIALIZATION_ERROR_CODE)
                 ELSE [req[r] EXCEPT !.pc = "commit"]]
    /\ UNCHANGED <<transactions, accounts, idempotencyKeys, now, users>>

(* A create that books every posting as a CREDIT. *)
CreatedTransactionAsCredit(r) ==
    [id |-> Len(transactions) + 1, userId |-> req[r].userId, type |-> CREDIT,
     amount |-> req[r].amount, idempotencyKey |-> req[r].idempotencyKey,
     createdAt |-> req[r].startedAt]

(* The Transaction row transaction.create wrote; its id is its place in the *)
(* committed log, its created_at the time its DB transaction started.       *)
CreatedTransaction(r) ==
    [id |-> Len(transactions) + 1, userId |-> req[r].userId, type |-> req[r].type,
     amount |-> req[r].amount, idempotencyKey |-> req[r].idempotencyKey,
     createdAt |-> req[r].startedAt]

(* A finalization that writes the response and keeps the expiry of the      *)
(* reservation, 90 days.                                                    *)
FinalizedKeyPendingExpiry(transaction, userId) ==
    [exists |-> TRUE,
     response |-> JSON_stringify([id |-> transaction.id, user_id |-> userId,
                                  amount |-> transaction.amount, type |-> transaction.type]),
     expiresAt |-> now + PENDING_TTL_HOURS]

(* A commit whose finalization is missing: the reserved row as inserted. *)
ReservedKeyLeft(transaction, userId) ==
    [exists |-> TRUE, response |-> PENDING, expiresAt |-> now + FINAL_TTL_HOURS]

(* finalizeIdempotency: the record that replaces the reservation. *)
FinalizedKey(transaction, userId) ==
    [exists |-> TRUE,
     response |-> JSON_stringify([id |-> transaction.id, user_id |-> userId,
                                  amount |-> transaction.amount, type |-> transaction.type]),
     expiresAt |-> now + FINAL_TTL_HOURS]

(* TransactionsService.createTransaction: the response of a created transaction. *)
ResponseOf(transaction) ==
    [id |-> transaction.id, user_id |-> transaction.userId,
     amount |-> transaction.amount, type |-> transaction.type]

(* A commit whose upsert names no user and writes every Account row. *)
CommitToEveryAccount(r) ==
    /\ req[r].pc = "commit"
    /\ LET t == CreatedTransaction(r)
           u == req[r].userId
           k == req[r].idempotencyKey
       IN /\ transactions' = Append(transactions, t)
          /\ accounts' = [v \in DOMAIN accounts |->
                            UpsertedAccount(accounts[v], NewBalance(r), CurrentVersion(r))]
          /\ idempotencyKeys' = IF k = NoKey THEN idempotencyKeys
                                ELSE [idempotencyKeys EXCEPT ![k] = FinalizedKey(t, u)]
          /\ req' = [req EXCEPT ![r] = Done(r, HTTP_OK, "", ResponseOf(t), NoDetails)]
    /\ UNCHANGED <<now, users>>

(* A commit that persists the Transaction row and the idempotency record    *)
(* and loses the Account upsert (the upsert outside the DB transaction).    *)
CommitWithoutAccount(r) ==
    /\ req[r].pc = "commit"
    /\ LET t == CreatedTransaction(r)
           u == req[r].userId
           k == req[r].idempotencyKey
       IN /\ transactions' = Append(transactions, t)
          /\ idempotencyKeys' = IF k = NoKey THEN idempotencyKeys
                                ELSE [idempotencyKeys EXCEPT ![k] = FinalizedKey(t, u)]
          /\ req' = [req EXCEPT ![r] = Done(r, HTTP_OK, "", ResponseOf(t), NoDetails)]
    /\ UNCHANGED <<accounts, now, users>>

(* finalizeIdempotency, the commit of the DB transaction and the response. *)
Commit(r) ==
    /\ req[r].pc = "commit"
    /\ LET t == CreatedTransaction(r)
           u == req[r].userId
           k == req[r].idempotencyKey
       IN /\ transactions' = Append(transactions, t)
          /\ accounts' = [accounts EXCEPT ![u] =
                            UpsertedAccount(accounts[u], NewBalance(r), CurrentVersion(r))]
          /\ idempotencyKeys' = IF k = NoKey THEN idempotencyKeys
                                ELSE [idempotencyKeys EXCEPT ![k] = FinalizedKey(t, u)]
          /\ req' = [req EXCEPT ![r] = Done(r, HTTP_OK, "", ResponseOf(t), NoDetails)]
    /\ UNCHANGED <<now, users>>

(* createTransactionWithRetry: the backoff sleep ends and the next attempt starts. *)
Backoff(r) ==
    /\ req[r].pc = "backoff"
    /\ req' = [req EXCEPT ![r] = [req[r] EXCEPT !.pc = "begin", !.attempt = @ + 1]]
    /\ UNCHANGED <<transactions, accounts, idempotencyKeys, now, users>>

(* The values of Math.random(), in [0, 1), as numerators over RandomSteps. *)
Math_random == 0..(RandomSteps - 1)

(* A backoff whose exponent is the attempt, not the attempt minus one. *)
computeBackoffMsDoubled(attempt, random) ==
    (2 ^ attempt) * BACKOFF_BASE_MS * RandomSteps + random * BACKOFF_JITTER_MS

(* computeBackoffMs: baseMs + jitterMs, with Math.random() = random over    *)
(* RandomSteps; the delay is in units of 1/RandomSteps of a millisecond.    *)
computeBackoffMs(attempt, random) ==
    (2 ^ (attempt - 1)) * BACKOFF_BASE_MS * RandomSteps + random * BACKOFF_JITTER_MS

(* createTransactionWithRetry: after a serialization failure with attempts  *)
(* left, the backoff is computed and the timer is set.                      *)
Sleep(r, random) ==
    /\ req[r].pc = "backoff"
    /\ req' = [req EXCEPT ![r] =
                 [req[r] EXCEPT !.pc = "sleeping",
                                !.backoff = computeBackoffMs(req[r].attempt, random)]]
    /\ UNCHANGED <<transactions, accounts, idempotencyKeys, now, users>>

(* createTransactionWithRetry: the timer fires and the loop continues with  *)
(* the next attempt.                                                        *)
Wake(r) ==
    /\ req[r].pc = "sleeping"
    /\ req' = [req EXCEPT ![r] =
                 [req[r] EXCEPT !.pc = "begin", !.attempt = @ + 1, !.backoff = 0]]
    /\ UNCHANGED <<transactions, accounts, idempotencyKeys, now, users>>

(* getBalance: the Account snapshot, else credits minus debits of the log. *)
getBalance(userId) ==
    IF accounts[userId].exists THEN accounts[userId].balance
    ELSE SumAmounts(transactions, userId, CREDIT) - SumAmounts(transactions, userId, DEBIT)

(* TransactionsService.createTransaction, the catch of INSUFFICIENT_BALANCE. *)
RespondInsufficient(r) ==
    /\ req[r].pc = "insufficient"
    /\ LET currentBalance == getBalance(req[r].userId)
       IN req' = [req EXCEPT ![r] =
                    Done(r, HTTP_BAD_REQUEST, "INSUFFICIENT_BALANCE", NoBody,
                         [currentBalance |-> currentBalance,
                          requestedAmount |-> req[r].amount,
                          shortage |-> req[r].amount - currentBalance])]
    /\ UNCHANGED <<transactions, accounts, idempotencyKeys, now, users>>

(* Time passes. *)
Tick ==
    /\ now < MaxTicks * TickHours
    /\ now' = now + TickHours
    /\ UNCHANGED <<transactions, accounts, idempotencyKeys, users, req>>

(* A sweeper whose filter is lte instead of lt. *)
ExpiredOrExpiring(row) == row.exists /\ row.expiresAt <= now

(* cleanupExpiredKeys: the rows the sweeper deletes. *)
Expired(row) == row.exists /\ row.expiresAt < now

(* idempotencyKey.deleteMany: the table after it, and result.count. *)
DeleteMany == [k \in DOMAIN idempotencyKeys |->
                 IF Expired(idempotencyKeys[k]) THEN NoIdempotencyKey
                 ELSE idempotencyKeys[k]]
DeleteManyCount == Cardinality({k \in DOMAIN idempotencyKeys : Expired(idempotencyKeys[k])})

(* cleanupExpiredKeys, run where nobody looks at what it returns. *)
cleanupExpiredKeys ==
    /\ \E k \in DOMAIN idempotencyKeys : Expired(idempotencyKeys[k])
    /\ idempotencyKeys' = DeleteMany
    /\ UNCHANGED <<transactions, accounts, req, now, users>>

(* cleanupExpiredKeys called by a maintenance job, which keeps the count it *)
(* returns.                                                                 *)
cleanupExpiredKeysCall(r) ==
    /\ Free(r)
    /\ idempotencyKeys' = DeleteMany
    /\ req' = [req EXCEPT ![r] =
                 [Idle EXCEPT !.pc = "done", !.kind = "SWEEP", !.count = DeleteManyCount]]
    /\ UNCHANGED <<transactions, accounts, now, users>>

---------------------------------------------------------------------------
(* Authentication *)

(* jsonwebtoken's verification, as passport-jwt and JwtService.verifyAsync  *)
(* run it with ignoreExpiration false: the signature and exp.               *)
JwtVerify(token, secret) ==
    token # NoToken /\ token.secret = secret /\ ~token.expired

(* A validation that also looks the user of the token up in table users. *)
validateUserJwtOfLiveUser(token) ==
    IF /\ JwtVerify(token, JWT_SECRET)
       /\ token.sub \in DOMAIN users
       /\ users[token.sub].state = "live"
    THEN [valid |-> TRUE, userId |-> token.sub]
    ELSE [valid |-> FALSE, userId |-> Undefined]

(* AuthService.validateUserJwt of Identity. *)
validateUserJwt(token) ==
    IF JwtVerify(token, JWT_SECRET)
    THEN [valid |-> TRUE, userId |-> token.sub]
    ELSE [valid |-> FALSE, userId |-> Undefined]

(* A strategy that does not look at the internal flag of the payload. *)
InternalJwtStrategyWithoutFlag(internalToken) ==
    JwtVerify(internalToken, INTERNAL_JWT_SECRET)

(* InternalJwtStrategy behind InternalJwtAuthGuard: the request is let in. *)
InternalJwtStrategy(internalToken) ==
    JwtVerify(internalToken, INTERNAL_JWT_SECRET) /\ internalToken.internal

(* AuthController.validateUserJwt of Identity (ValidateExternalToken): the  *)
(* HTTP response to a caller presenting internalToken for user_token.       *)
ValidateExternalToken(internalToken, userToken) ==
    IF ~InternalJwtStrategy(internalToken)
    THEN [status |-> HTTP_UNAUTHORIZED, valid |-> FALSE, user_id |-> Undefined]
    ELSE [status |-> HTTP_CREATED,
          valid |-> validateUserJwt(userToken).valid,
          user_id |-> validateUserJwt(userToken).userId]

(* JwtStrategy of Identity, guarding its own endpoints: the principal. *)
IdentityJwtStrategy(token) ==
    IF JwtVerify(token, JWT_SECRET) /\ token.sub # Undefined /\ token.email
    THEN [valid |-> TRUE, userId |-> token.sub]
    ELSE [valid |-> FALSE, userId |-> Undefined]

(* The internal token validateRemoteToken signs: {internal: true}, 1 minute. *)
SignedInternalToken ==
    [secret |-> INTERNAL_JWT_SECRET, expired |-> FALSE, sub |-> Undefined,
     email |-> FALSE, internal |-> TRUE]

(* What can happen to the HTTP call of validateRemoteToken. *)
Transports == {"ok", "network", "decoding"}

(* A validation that trusts the locally verified token when the call fails. *)
validateRemoteTokenFailOpen(token, transport) ==
    LET data == ValidateExternalToken(SignedInternalToken, token)
    IN IF transport # "ok" \/ (data.status = HTTP_CREATED /\ data.valid)
       THEN [valid |-> TRUE, userId |-> token.sub]
       ELSE [valid |-> FALSE, userId |-> Undefined]

(* AuthService.validateRemoteToken of the Ledger: everything runs inside    *)
(* one try/catch; a response status outside 2xx makes the HTTP client throw. *)
validateRemoteToken(token, transport) ==
    LET data == ValidateExternalToken(SignedInternalToken, token)
    IN IF transport = "ok" /\ data.status = HTTP_CREATED /\ data.valid
       THEN [valid |-> TRUE, userId |-> data.user_id]
       ELSE [valid |-> FALSE, userId |-> Undefined]

(* A guard that checks the signature only and asks nobody. *)
LedgerJwtStrategySignatureOnly(token, transport) ==
    IF token # NoToken /\ token.secret = JWT_SECRET
    THEN [valid |-> TRUE, userId |-> token.sub]
    ELSE [valid |-> FALSE, userId |-> Undefined]

(* JwtStrategy of the Ledger behind JwtAuthGuard: passport-jwt verifies the *)
(* bearer token, then validate asks Identity.                               *)
LedgerJwtStrategy(token, transport) ==
    IF JwtVerify(token, JWT_SECRET) /\ validateRemoteToken(token, transport).valid
    THEN [valid |-> TRUE, userId |-> validateRemoteToken(token, transport).userId]
    ELSE [valid |-> FALSE, userId |-> Undefined]

(* A controller that takes the user from the request body. *)
PrincipalFromBody(r, user) == req[r].bodyUserId

(* TransactionsController: const userId = req.user.userId, the object the   *)
(* guard's strategy returned.                                               *)
Principal(r, user) == user.userId

(* The request after the guard's call of Identity went over a transport;   *)
(* passport-jwt refuses a token it cannot verify before any call is made.   *)
Called(request, token, transport) ==
    [request EXCEPT !.transport = IF JwtVerify(token, JWT_SECRET) THEN transport ELSE ""]

(* POST /transactions arrives at the Ledger. *)
Arrive(r, token, bodyUserId, type, amount) ==
    /\ Free(r)
    /\ Len(transactions) < MaxAuthTx
    /\ req' = [req EXCEPT ![r] =
                 [Idle EXCEPT !.pc = "guard", !.kind = "POST", !.token = token,
                              !.bodyUserId = bodyUserId, !.type = type, !.amount = amount]]
    /\ UNCHANGED <<transactions, accounts, idempotencyKeys, now, users>>

(* GET balance or GET transactions arrives at the Ledger. *)
ArriveRead(r, kind, token, filter) ==
    /\ Free(r)
    /\ req' = [req EXCEPT ![r] =
                 [Idle EXCEPT !.pc = "guard", !.kind = kind, !.token = token,
                              !.filter = filter]]
    /\ UNCHANGED <<transactions, accounts, idempotencyKeys, now, users>>

(* JwtAuthGuard, then the controller method: for a posting,                 *)
(* TransactionsService.createTransaction up to the first statement of the   *)
(* DB transaction.                                                          *)
Authenticate(r, transport) ==
    /\ req[r].pc = "guard"
    /\ LET user == LedgerJwtStrategy(req[r].token, transport)
       IN req' = [req EXCEPT ![r] = Called(
                    IF ~user.valid
                    THEN Done(r, HTTP_UNAUTHORIZED, "Unauthorized", NoBody, NoDetails)
                    ELSE IF req[r].kind = "POST" /\ InvalidAmount(req[r].amount)
                    THEN [req[r] EXCEPT !.pc = "done", !.userId = Principal(r, user),
                                        !.status = HTTP_BAD_REQUEST,
                                        !.error = "INVALID_AMOUNT"]
                    ELSE IF req[r].kind = "BALANCE"
                    THEN [req[r] EXCEPT !.pc = "balance", !.userId = Principal(r, user)]
                    ELSE IF req[r].kind = "LIST"
                    THEN [req[r] EXCEPT !.pc = "list", !.userId = Principal(r, user)]
                    ELSE [req[r] EXCEPT !.pc = "begin", !.userId = Principal(r, user),
                                        !.attempt = 1],
                    req[r].token, transport)]
    /\ UNCHANGED <<transactions, accounts, idempotencyKeys, now, users>>

(* A read that sees the row an open DB transaction has written. *)
ReadUncommitted(userId) ==
    IF \E o \in Slots : HoldsAccount(o, userId)
    THEN LET o == CHOOSE o \in Slots : HoldsAccount(o, userId)
         IN UpsertedAccount(accounts[userId], NewBalance(o), CurrentVersion(o))
    ELSE accounts[userId]

(* prisma.account.findUnique outside a DB transaction: the committed row. *)
ReadCommitted(userId) == accounts[userId]

(* getBalance, the fast path: the Account snapshot, when there is one.  A   *)
(* findUnique whose userId is undefined is refused by the client.           *)
ReadAccountBalance(r) ==
    /\ req[r].pc = "balance"
    /\ req' = [req EXCEPT ![r] =
                 IF req[r].userId = Undefined
                 THEN Done(r, HTTP_INTERNAL_ERROR, PRISMA_VALIDATION_ERROR, NoBody, NoDetails)
                 ELSE IF ReadCommitted(req[r].userId).exists
                 THEN Done(r, HTTP_OK, "",
                           [NoBody EXCEPT !.amount = ReadCommitted(req[r].userId).balance],
                           NoDetails)
                 ELSE [req[r] EXCEPT !.pc = "aggregate"]]
    /\ UNCHANGED <<transactions, accounts, idempotencyKeys, now, users>>

(* A fallback whose aggregation forgets the where clause. *)
BalanceFromLogOfAllUsers(userId) ==
    LET Total(type) == SumAmounts(transactions, "u1", type) + SumAmounts(transactions, "u2", type)
    IN Total(CREDIT) - Total(DEBIT)

(* getBalance, the fallback: credits minus debits of the user's Transactions. *)
BalanceFromLog(userId) ==
    SumAmounts(transactions, userId, CREDIT) - SumAmounts(transactions, userId, DEBIT)

(* getBalance, the fallback: the groupBy statement and the response. *)
AggregateBalance(r) ==
    /\ req[r].pc = "aggregate"
    /\ req' = [req EXCEPT ![r] =
                 Done(r, HTTP_OK, "",
                      [NoBody EXCEPT !.amount = BalanceFromLog(req[r].userId)], NoDetails)]
    /\ UNCHANGED <<transactions, accounts, idempotencyKeys, now, users>>

(* findByUser, the where clause: a userId or type that is undefined is no   *)
(* condition.                                                               *)
Matching(userId, type) ==
    {i \in DOMAIN transactions :
        /\ userId # Undefined => transactions[i].userId = userId
        /\ type # Undefined => transactions[i].type = type}

(* findByUser, orderBy createdAt desc: the orders the database may return   *)
(* the rows in.                                                             *)
Orderings(rows) ==
    {order \in [1..Cardinality(rows) -> rows] :
        /\ \A i, j \in DOMAIN order : i # j => order[i] # order[j]
        /\ \A i, j \in DOMAIN order :
              i < j => transactions[order[i]].createdAt >= transactions[order[j]].createdAt}

(* TransactionsService.getTransactions: the item of a row. *)
ItemOf(transaction) ==
    [id |-> transaction.id, user_id |-> transaction.userId, amount |-> transaction.amount,
     type |-> transaction.type, createdAt |-> transaction.createdAt]

(* findByUser and the response of GET transactions. *)
FindByUser(r) ==
    /\ req[r].pc = "list"
    /\ \E order \in Orderings(Matching(req[r].userId, req[r].filter)) :
          req' = [req EXCEPT ![r] =
                    [Done(r, HTTP_OK, "", NoBody, NoDetails) EXCEPT
                        !.list = [i \in DOMAIN order |-> ItemOf(transactions[order[i]])]]]
    /\ UNCHANGED <<transactions, accounts, idempotencyKeys, now, users>>

(* POST /auth/validate-user-jwt arrives at Identity from any caller. *)
IdentityValidate(r, internalToken, userToken) ==
    /\ req[r].pc = "idle"
    /\ req' = [req EXCEPT ![r] =
                 [Idle EXCEPT !.pc = "done", !.kind = "VALIDATE",
                              !.internalToken = internalToken, !.token = userToken,
                              !.status = ValidateExternalToken(internalToken, userToken).status,
                              !.answer = ValidateExternalToken(internalToken, userToken)]]
    /\ UNCHANGED <<transactions, accounts, idempotencyKeys, now, users>>

(* A request arrives at an endpoint of Identity behind its JwtAuthGuard. *)
IdentityProtected(r, token) ==
    /\ req[r].pc = "idle"
    /\ req' = [req EXCEPT ![r] =
                 [Idle EXCEPT !.pc = "done", !.kind = "PROTECTED", !.token = token,
                              !.userId = IdentityJwtStrategy(token).userId,
                              !.status = IF IdentityJwtStrategy(token).valid
                                         THEN HTTP_OK ELSE HTTP_UNAUTHORIZED]]
    /\ UNCHANGED <<transactions, accounts, idempotencyKeys, now, users>>

---------------------------------------------------------------------------
(* Identity: users *)

Emails == {"a@e2e.test", "b@e2e.test"}
Names == {"Alice", "Bob"}

(* Passwords, as their sequences of characters. *)
Password1 == <<1, 1, 1, 1, 1, 1>>
Password2 == <<2, 2, 2, 2, 2, 2>>
ShortPassword == <<1, 1>>
NoPassword == <<>>

(* bcrypt.hash(password, 10) and bcrypt.compare(password, hash). *)
bcrypt_hash(password) == <<"$2b$10$">> \o password
bcrypt_compare(password, hashed) == hashed = bcrypt_hash(password)

(* The row of an id as prisma returns it. *)
UserOf(id) ==
    [id |-> id, email |-> users[id].email, firstName |-> users[id].firstName,
     lastName |-> users[id].lastName, password |-> users[id].password]

(* UsersRepository.findAll: the columns it selects of a row. *)
SelectedOf(id) ==
    [id |-> id, email |-> users[id].email, firstName |-> users[id].firstName,
     lastName |-> users[id].lastName]

(* The ids of the rows of table users. *)
Live == {id \in Users : users[id].state = "live"}

(* UsersRepository.findByEmail: the ids the lookup finds (none or one). *)
findByEmail(email) == {id \in Live : users[id].email = email}

(* A response that passes the row on as it is. *)
toResponseDtoWholeRow(user) == user

(* UsersService.toResponseDto. *)
toResponseDto(user) ==
    [id |-> user.id, email |-> user.email, first_name |-> user.firstName,
     last_name |-> user.lastName]

(* JwtService.sign(payload) with the module's secret and expiresIn 1h. *)
sign(payload) == [secret |-> JWT_SECRET, expired |-> FALSE, payload |-> payload]

(* The bearer token a client presents having logged in as id. *)
BearerOf(id) ==
    [secret |-> JWT_SECRET, expired |-> FALSE, sub |-> id, email |-> TRUE, internal |-> FALSE]

(* class-validator on the password of CreateUserDto and UpdateUserDto. *)
MinLength(password) == Len(password) >= PASSWORD_MIN_LENGTH

(* An answer of Identity. *)
Answer(r, status, error, view) ==
    [req[r] EXCEPT !.pc = "done", !.status = status, !.error = error, !.view = view]

(* A request that Identity's JwtAuthGuard lets through or answers 401. *)
Guarded(r, kind, token, target, dto, pc) ==
    LET arrived == [Idle EXCEPT !.kind = kind, !.token = token, !.target = target,
                                !.dto = dto,
                                !.userId = IdentityJwtStrategy(token).userId]
    IN IF IdentityJwtStrategy(token).valid
       THEN [arrived EXCEPT !.pc = pc]
       ELSE [arrived EXCEPT !.pc = "done", !.status = HTTP_UNAUTHORIZED,
                            !.error = "Unauthorized"]

(* The id a new row gets: one no row has had. *)
uuid == IF users["u1"].state = "free" THEN "u1" ELSE "u2"

(* POST /users arrives: UsersController.create, the ValidationPipe. *)
Register(r, dto) ==
    /\ Free(r)
    /\ Cardinality({id \in Users : users[id].state # "free"})
         + Cardinality({o \in Slots : req[o].pc \in {"findByEmail", "create"}})
         < Cardinality(Users)
    /\ req' = [req EXCEPT ![r] =
                 IF MinLength(dto.password)
                 THEN [Idle EXCEPT !.pc = "findByEmail", !.kind = "REGISTER", !.dto = dto]
                 ELSE [Idle EXCEPT !.pc = "done", !.kind = "REGISTER", !.dto = dto,
                                   !.status = HTTP_BAD_REQUEST, !.error = "Bad Request"]]
    /\ UNCHANGED <<transactions, accounts, idempotencyKeys, now, users>>

(* UsersService.create: the lookup of the email. *)
RegisterFindByEmail(r) ==
    /\ req[r].pc = "findByEmail"
    /\ req' = [req EXCEPT ![r] =
                 IF findByEmail(req[r].dto.email) # {}
                 THEN Answer(r, HTTP_CONFLICT, "Email already exists", <<>>)
                 ELSE [req[r] EXCEPT !.pc = "create"]]
    /\ UNCHANGED <<transactions, accounts, idempotencyKeys, now, users>>

(* UsersService.create: bcrypt.hash, UsersRepository.create and the        *)
(* response.  findUnique by email requires the unique index on email: the  *)
(* insert of an email a row holds fails with P2002, which nothing catches. *)
RegisterCreate(r) ==
    /\ req[r].pc = "create"
    /\ LET id == uuid
           row == [state |-> "live", email |-> req[r].dto.email,
                   firstName |-> req[r].dto.first_name, lastName |-> req[r].dto.last_name,
                   password |-> bcrypt_hash(req[r].dto.password)]
       IN IF findByEmail(req[r].dto.email) # {}
          THEN /\ req' = [req EXCEPT ![r] =
                            Answer(r, HTTP_INTERNAL_ERROR, PRISMA_UNIQUE_ERROR_CODE, <<>>)]
               /\ users' = users
          ELSE /\ users' = [users EXCEPT ![id] = row]
               /\ req' = [req EXCEPT ![r] =
                            Answer(r, HTTP_CREATED, "",
                                   toResponseDto([id |-> id, email |-> row.email,
                                                  firstName |-> row.firstName,
                                                  lastName |-> row.lastName,
                                                  password |-> row.password]))]
    /\ UNCHANGED <<transactions, accounts, idempotencyKeys, now>>

(* A validateUser that does not compare the password. *)
validateUserAnyPassword(email, password) ==
    {[id |-> id, email |-> users[id].email, firstName |-> users[id].firstName,
      lastName |-> users[id].lastName] : id \in findByEmail(email)}

(* AuthService.validateUser: the user without the password, or null. *)
validateUser(email, password) ==
    {[id |-> id, email |-> users[id].email, firstName |-> users[id].firstName,
      lastName |-> users[id].lastName] :
        id \in {f \in findByEmail(email) : bcrypt_compare(password, users[f].password)}}

(* POST /auth: AuthService.login. *)
Login(r, email, password) ==
    /\ Free(r)
    /\ LET arrived == [Idle EXCEPT !.kind = "LOGIN",
                                   !.dto = [NoDto EXCEPT !.email = email, !.password = password]]
           found == validateUser(email, password)
           user == CHOOSE user \in found : TRUE
       IN req' = [req EXCEPT ![r] =
                    IF found = {}
                    THEN [arrived EXCEPT !.pc = "done", !.status = HTTP_UNAUTHORIZED,
                                         !.error = "Invalid credentials"]
                    ELSE [arrived EXCEPT !.pc = "done", !.status = HTTP_CREATED,
                                         !.view = [user |-> [id |-> user.id,
                                                             email |-> user.email,
                                                             first_name |-> user.firstName,
                                                             last_name |-> user.lastName],
                                                   access_token |->
                                                       sign([sub |-> user.id,
                                                             email |-> user.email])]]]
    /\ UNCHANGED <<transactions, accounts, idempotencyKeys, now, users>>

(* GET /users: UsersService.findAll, in the order of the ids. *)
FindAll(r, token) ==
    /\ Free(r)
    /\ LET passed == Guarded(r, "LIST_USERS", token, "", NoDto, "done")
       IN req' = [req EXCEPT ![r] =
                    IF passed.status = HTTP_UNAUTHORIZED THEN passed
                    ELSE [passed EXCEPT !.status = HTTP_OK,
                                        !.view = [id \in Live |-> toResponseDto(SelectedOf(id))]]]
    /\ UNCHANGED <<transactions, accounts, idempotencyKeys, now, users>>

(* GET /users/:id: UsersController.findOne and UsersService.findOne. *)
FindOne(r, token, id) ==
    /\ Free(r)
    /\ LET passed == Guarded(r, "READ", token, id, NoDto, "done")
       IN req' = [req EXCEPT ![r] =
                    IF passed.status = HTTP_UNAUTHORIZED THEN passed
                    ELSE IF id \notin Live
                    THEN [passed EXCEPT !.status = HTTP_NOT_FOUND, !.error = "User not found"]
                    ELSE [passed EXCEPT !.status = HTTP_OK,
                                        !.view = toResponseDto(UserOf(id))]]
    /\ UNCHANGED <<transactions, accounts, idempotencyKeys, now, users>>

(* PATCH /users/:id: the guard, the ValidationPipe and findById. *)
Update(r, token, id, dto) ==
    /\ Free(r)
    /\ LET passed == Guarded(r, "UPDATE", token, id, dto, "update")
       IN req' = [req EXCEPT ![r] =
                    IF passed.status = HTTP_UNAUTHORIZED THEN passed
                    ELSE IF dto.password # NoPassword /\ ~MinLength(dto.password)
                    THEN [passed EXCEPT !.pc = "done", !.status = HTTP_BAD_REQUEST,
                                        !.error = "Bad Request"]
                    ELSE IF id \notin Live
                    THEN [passed EXCEPT !.pc = "done", !.status = HTTP_NOT_FOUND,
                                        !.error = "User not found"]
                    ELSE passed]
    /\ UNCHANGED <<transactions, accounts, idempotencyKeys, now, users>>

(* UsersService.update: bcrypt.hash, UsersRepository.update, the response. *)
(* prisma.user.update of a row that is gone fails with P2025.               *)
UpdateWrite(r) ==
    /\ req[r].pc = "update"
    /\ LET id == req[r].target
           dto == req[r].dto
           row == [users[id] EXCEPT
                     !.firstName = IF dto.first_name # Undefined THEN dto.first_name ELSE @,
                     !.lastName = IF dto.last_name # Undefined THEN dto.last_name ELSE @,
                     !.password = IF dto.password # NoPassword
                                  THEN bcrypt_hash(dto.password) ELSE @]
       IN IF id \notin Live
          THEN /\ req' = [req EXCEPT ![r] = Answer(r, HTTP_INTERNAL_ERROR, "P2025", <<>>)]
               /\ users' = users
          ELSE /\ users' = [users EXCEPT ![id] = row]
               /\ req' = [req EXCEPT ![r] =
                            Answer(r, HTTP_OK, "",
                                   toResponseDto([id |-> id, email |-> row.email,
                                                  firstName |-> row.firstName,
                                                  lastName |-> row.lastName,
                                                  password |-> row.password]))]
    /\ UNCHANGED <<transactions, accounts, idempotencyKeys, now>>

(* DELETE /users/:id: the guard and findById. *)
Remove(r, token, id) ==
    /\ Free(r)
    /\ LET passed == Guarded(r, "DELETE", token, id, NoDto, "delete")
       IN req' = [req EXCEPT ![r] =
                    IF passed.status = HTTP_UNAUTHORIZED THEN passed
                    ELSE IF id \notin Live
                    THEN [passed EXCEPT !.pc = "done", !.status = HTTP_NOT_FOUND,
                                        !.error = "User not found"]
                    ELSE passed]
    /\ UNCHANGED <<transactions, accounts, idempotencyKeys, now, users>>

(* UsersService.remove: UsersRepository.delete. *)
RemoveDelete(r) ==
    /\ req[r].pc = "delete"
    /\ LET id == req[r].target
       IN IF id \notin Live
          THEN /\ req' = [req EXCEPT ![r] = Answer(r, HTTP_INTERNAL_ERROR, "P2025", <<>>)]
               /\ users' = users
          ELSE /\ users' = [users EXCEPT ![id] = [NoUser EXCEPT !.state = "deleted"]]
               /\ req' = [req EXCEPT ![r] = Answer(r, HTTP_OK, "", <<>>)]
    /\ UNCHANGED <<transactions, accounts, idempotencyKeys, now>>

---------------------------------------------------------------------------
(* Spec: any requests of any users, the clock and the sweeper. *)

Handlers == 1..NumReq

Init ==
    /\ transactions = <<>>
    /\ accounts = [u \in Users |-> NoAccount]
    /\ idempotencyKeys = [k \in Keys |-> NoIdempotencyKey]
    /\ now = 0
    /\ users = [id \in Users |-> NoUser]
    /\ req = [r \in Slots |-> Idle]

Next ==
    \/ \E r \in Handlers, u \in Users, t \in TransactionType, a \in Amounts,
          k \in Keys \cup {NoKey} : Submit(r, u, t, a, k)
    \/ \E r \in Handlers : Probe(r)
    \/ \E r \in Handlers : Reserve(r)
    \/ \E r \in Handlers : ReadAndAppend(r)
    \/ \E r \in Handlers : ProcessAccount(r)
    \/ \E r \in Handlers : Commit(r)
    \/ \E r \in Handlers : Backoff(r)
    \/ \E r \in Handlers : RespondInsufficient(r)
    \/ Tick
    \/ cleanupExpiredKeys

Spec == Init /\ [][Next]_vars

---------------------------------------------------------------------------
(* SpecAuth: requests with any bearer token at the Ledger, one at a time,   *)
(* through the guard and the write protocol.                                *)

AuthHandlers == {1}
Presented == Tokens \cup {NoToken}

NextAuth ==
    \/ \E r \in AuthHandlers, token \in Presented, u \in Users, t \in TransactionType,
          a \in Amounts : Arrive(r, token, u, t, a)
    \/ \E r \in AuthHandlers, transport \in Transports : Authenticate(r, transport)
    \/ \E r \in AuthHandlers : Probe(r)
    \/ \E r \in AuthHandlers : ReadAndAppend(r)
    \/ \E r \in AuthHandlers : ProcessAccount(r)
    \/ \E r \in AuthHandlers : Commit(r)
    \/ \E r \in AuthHandlers : RespondInsufficient(r)

SpecAuth == Init /\ [][NextAuth]_vars

---------------------------------------------------------------------------
(* SpecRead: postings without key by concurrent handlers, and GET balance   *)
(* by one more handler, with the tokens that verify.                        *)

Readers == {NumReq + 1}
VerifiedTokens ==
    {token \in Tokens : JwtVerify(token, JWT_SECRET) /\ token.email /\ ~token.internal}

NextRead ==
    \/ \E r \in Handlers, u \in Users, t \in TransactionType, a \in 1..MaxAmount :
          Submit(r, u, t, a, NoKey)
    \/ \E r \in Handlers : Probe(r)
    \/ \E r \in Handlers : ReadAndAppend(r)
    \/ \E r \in Handlers : ProcessAccount(r)
    \/ \E r \in Handlers : Commit(r)
    \/ \E r \in Handlers : Backoff(r)
    \/ \E r \in Handlers : RespondInsufficient(r)
    \/ \E r \in Readers, token \in VerifiedTokens :
          ArriveRead(r, "BALANCE", token, Undefined)
    \/ \E r \in Readers : Authenticate(r, "ok")
    \/ \E r \in Readers : ReadAccountBalance(r)
    \/ \E r \in Readers : AggregateBalance(r)

SpecRead == Init /\ [][NextRead]_vars

---------------------------------------------------------------------------
(* SpecList: postings without key, one at a time, the clock, and GET        *)
(* transactions by one more handler, with the tokens that verify.           *)

NextList ==
    \/ \E r \in AuthHandlers, u \in Users, t \in TransactionType, a \in 1..MaxAmount :
          Submit(r, u, t, a, NoKey)
    \/ \E r \in AuthHandlers : Probe(r)
    \/ \E r \in AuthHandlers : ReadAndAppend(r)
    \/ \E r \in AuthHandlers : ProcessAccount(r)
    \/ \E r \in AuthHandlers : Commit(r)
    \/ \E r \in AuthHandlers : RespondInsufficient(r)
    \/ \E r \in Readers, token \in VerifiedTokens, filter \in TransactionType \cup {Undefined} :
          ArriveRead(r, "LIST", token, filter)
    \/ \E r \in Readers : Authenticate(r, "ok")
    \/ \E r \in Readers : FindByUser(r)
    \/ Tick

SpecList == Init /\ [][NextList]_vars

---------------------------------------------------------------------------
(* SpecIdentity: one request with any tokens at an endpoint of Identity. *)

NextIdentity ==
    \/ \E r \in AuthHandlers, i \in Presented, t \in Presented : IdentityValidate(r, i, t)
    \/ \E r \in AuthHandlers, token \in Presented : IdentityProtected(r, token)

SpecIdentity == Init /\ [][NextIdentity]_vars

---------------------------------------------------------------------------
(* SpecSameKey: NumSame requests with one idempotency key and one body,     *)
(* all past the amount check before any of them opens its DB transaction,   *)
(* against a user whose balance funds the posting once.  They complete      *)
(* while the key's record is live, so the clock does not advance.           *)

SameKey == 1..NumSame
SameUser == "u1"
SameIdempotencyKey == "k1"

(* The posting that seeded the balance, and the Account row it left. *)
SeedTransaction(amount) ==
    [id |-> 1, userId |-> SameUser, type |-> CREDIT, amount |-> amount,
     idempotencyKey |-> NoKey, createdAt |-> 0]
SeedAccount(amount) == [exists |-> TRUE, balance |-> amount, version |-> 1]

InitSameKey ==
    /\ transactions = <<SeedTransaction(MaxAmount)>>
    /\ accounts = [u \in Users |-> IF u = SameUser THEN SeedAccount(MaxAmount) ELSE NoAccount]
    /\ idempotencyKeys = [k \in Keys |-> NoIdempotencyKey]
    /\ now = 0
    /\ users = [id \in Users |-> NoUser]
    /\ \E t \in TransactionType, a \in 1..MaxAmount :
          req = [r \in Slots |->
                   IF r \in SameKey
                   THEN [Idle EXCEPT !.pc = "begin", !.attempt = 1, !.userId = SameUser,
                                     !.type = t, !.amount = a,
                                     !.idempotencyKey = SameIdempotencyKey]
                   ELSE Idle]

NextSameKey ==
    \/ \E r \in SameKey : Probe(r)
    \/ \E r \in SameKey : Reserve(r)
    \/ \E r \in SameKey : ReadAndAppend(r)
    \/ \E r \in SameKey : ProcessAccount(r)
    \/ \E r \in SameKey : Commit(r)
    \/ \E r \in SameKey : Backoff(r)

SpecSameKey == InitSameKey /\ [][NextSameKey]_vars

---------------------------------------------------------------------------
(* SpecFired: NumFired requests without key, of one type and one amount,    *)
(* fired at one user, all past the amount check before any of them opens    *)
(* its DB transaction.  CREDITs are fired at a fresh user, DEBITs at a user *)
(* whose balance funds SeedUnits of them.  Request 1 runs at any time;      *)
(* the schedules explored run the handlers of requests 2..NumFired one      *)
(* after the other.                                                         *)

Fired == 1..NumFired
FiredAmount == MaxAmount
FiredSeed == SeedUnits * FiredAmount

(* The scheduler lets the handler of request r run. *)
Turn(r) == r = 1 \/ \A o \in 2..(r - 1) : req[o].pc = "done"

InitFired ==
    /\ idempotencyKeys = [k \in Keys |-> NoIdempotencyKey]
    /\ now = 0
    /\ users = [id \in Users |-> NoUser]
    /\ \E t \in TransactionType :
          /\ transactions = IF t = DEBIT THEN <<SeedTransaction(FiredSeed)>> ELSE <<>>
          /\ accounts = [u \in Users |->
                            IF u = SameUser /\ t = DEBIT THEN SeedAccount(FiredSeed)
                            ELSE NoAccount]
          /\ req = [r \in Slots |->
                      [Idle EXCEPT !.pc = "begin", !.attempt = 1, !.userId = SameUser,
                                   !.type = t, !.amount = FiredAmount]]

NextFired ==
    \/ \E r \in Fired : Turn(r) /\ Probe(r)
    \/ \E r \in Fired : Turn(r) /\ ReadAndAppend(r)
    \/ \E r \in Fired : Turn(r) /\ ProcessAccount(r)
    \/ \E r \in Fired : Turn(r) /\ Commit(r)
    \/ \E r \in Fired : Turn(r) /\ Backoff(r)
    \/ \E r \in Fired : Turn(r) /\ RespondInsufficient(r)

SpecFired == InitFired /\ [][NextFired]_vars

(* SpecBackoff: the same postings, with the delay of every backoff. *)
NextBackoff ==
    \/ \E r \in Fired : Turn(r) /\ Probe(r)
    \/ \E r \in Fired : Turn(r) /\ ReadAndAppend(r)
    \/ \E r \in Fired : Turn(r) /\ ProcessAccount(r)
    \/ \E r \in Fired : Turn(r) /\ Commit(r)
    \/ \E r \in Fired, random \in Math_random : Turn(r) /\ Sleep(r, random)
    \/ \E r \in Fired : Turn(r) /\ Wake(r)
    \/ \E r \in Fired : Turn(r) /\ RespondInsufficient(r)

SpecBackoff == InitFired /\ [][NextBackoff]_vars

(* The same postings when every handler that can take a step eventually does. *)
SpecFiredFair == SpecFired /\ WF_vars(NextFired)

---------------------------------------------------------------------------
(* SpecSweep: postings of one user under two keys, one at a time, the clock *)
(* and a maintenance job calling the sweeper.                               *)

SweepKeys == {"k1", "k2"}
Sweepers == {NumReq + 2}

InitSweep ==
    /\ transactions = <<>>
    /\ accounts = [u \in Users |-> NoAccount]
    /\ idempotencyKeys = [k \in SweepKeys |-> NoIdempotencyKey]
    /\ now = 0
    /\ users = [id \in Users |-> NoUser]
    /\ req = [r \in Slots |-> Idle]

NextSweep ==
    \/ \E r \in AuthHandlers, k \in SweepKeys : Submit(r, SameUser, CREDIT, 1, k)
    \/ \E r \in AuthHandlers : Probe(r)
    \/ \E r \in AuthHandlers : Reserve(r)
    \/ \E r \in AuthHandlers : ReadAndAppend(r)
    \/ \E r \in AuthHandlers : ProcessAccount(r)
    \/ \E r \in AuthHandlers : Commit(r)
    \/ \E r \in Sweepers : cleanupExpiredKeysCall(r)
    \/ Tick

SpecSweep == InitSweep /\ [][NextSweep]_vars

---------------------------------------------------------------------------
(* SpecRegister: registrations at Identity, two at a time.                  *)

CreateUserDtos ==
    {[email |-> e, first_name |-> "Alice", last_name |-> "Alice", password |-> p] :
        e \in Emails, p \in {Password1, ShortPassword}}

NextRegister ==
    \/ \E r \in Handlers, dto \in CreateUserDtos : Register(r, dto)
    \/ \E r \in Handlers : RegisterFindByEmail(r)
    \/ \E r \in Handlers : RegisterCreate(r)

SpecRegister == Init /\ [][NextRegister]_vars

---------------------------------------------------------------------------
(* SpecUsers: the requests of Identity's endpoints, one at a time, by       *)
(* clients presenting no token or the token of a login.                     *)

UpdateUserDtos ==
    {[NoDto EXCEPT !.first_name = "Bob"], [NoDto EXCEPT !.password = Password2],
     [NoDto EXCEPT !.last_name = "Bob", !.password = ShortPassword]}

(* The bearer tokens clients can present: none, or one a login issued. *)
Bearers == {NoToken} \cup {BearerOf(id) : id \in {u \in Users : users[u].state # "free"}}

NextUsers ==
    \/ \E r \in AuthHandlers, dto \in CreateUserDtos : Register(r, dto)
    \/ \E r \in AuthHandlers : RegisterFindByEmail(r)
    \/ \E r \in AuthHandlers : RegisterCreate(r)
    \/ \E r \in AuthHandlers, email \in Emails, password \in {Password1, Password2} :
          Login(r, email, password)
    \/ \E r \in AuthHandlers, token \in Bearers : FindAll(r, token)
    \/ \E r \in AuthHandlers, token \in Bearers, id \in Users : FindOne(r, token, id)
    \/ \E r \in AuthHandlers, token \in Bearers, id \in Users, dto \in UpdateUserDtos :
          Update(r, token, id, dto)
    \/ \E r \in AuthHandlers : UpdateWrite(r)
    \/ \E r \in AuthHandlers, token \in Bearers, id \in Users : Remove(r, token, id)
    \/ \E r \in AuthHandlers : RemoveDelete(r)

SpecUsers == Init /\ [][NextUsers]_vars

---------------------------------------------------------------------------
(* SpecDeleted: registrations and deletions at Identity by one handler, and *)
(* postings at the Ledger by another, with the tokens of the users that     *)
(* have registered, unexpired or expired, or with none.                     *)

Posters == {NumReq}
Issued ==
    Bearers \cup {[BearerOf(id) EXCEPT !.expired = TRUE] :
                     id \in {u \in Users : users[u].state # "free"}}

NextDeleted ==
    \/ \E r \in AuthHandlers, dto \in CreateUserDtos : Register(r, dto)
    \/ \E r \in AuthHandlers : RegisterFindByEmail(r)
    \/ \E r \in AuthHandlers : RegisterCreate(r)
    \/ \E r \in AuthHandlers, id \in Users :
          \E token \in {BearerOf(id)} : Remove(r, token, id)
    \/ \E r \in AuthHandlers : RemoveDelete(r)
    \/ \E r \in Posters, token \in Issued, t \in TransactionType, a \in 1..MaxAmount :
          Arrive(r, token, token.sub, t, a)
    \/ \E r \in Posters : Authenticate(r, "ok")
    \/ \E r \in Posters : Probe(r)
    \/ \E r \in Posters : ReadAndAppend(r)
    \/ \E r \in Posters : ProcessAccount(r)
    \/ \E r \in Posters : Commit(r)
    \/ \E r \in Posters : RespondInsufficient(r)

SpecDeleted == Init /\ [][NextDeleted]_vars

---------------------------------------------------------------------------
(* Quantities of the committed state *)

(* The places in the log of the committed Transactions of a user. *)
RowsOf(userId) == {i \in DOMAIN transactions : transactions[i].userId = userId}

(* The places in the log of the committed Transactions that carry a key. *)
RowsWithKey(k) == {i \in DOMAIN transactions : transactions[i].idempotencyKey = k}

(* Credits minus debits of a user's committed Transactions. *)
LedgerBalance(userId) ==
    SumAmounts(transactions, userId, CREDIT) - SumAmounts(transactions, userId, DEBIT)

(* The committed Transaction that created the idempotency record of key k:  *)
(* the latest one that carries k.                                           *)
OriginalOf(k) ==
    transactions[CHOOSE i \in RowsWithKey(k) : \A j \in RowsWithKey(k) : j <= i]

(* A finalized, unexpired idempotency record. *)
LiveFinalized(row) == row.exists /\ row.response # PENDING /\ row.expiresAt > now

(* Every response has been given. *)
AllDone(n) == \A r \in 1..n : req[r].pc = "done"

(* The requests among 1..n answered with a status. *)
Answered(n, status) == {r \in 1..n : req[r].pc = "done" /\ req[r].status = status}

(* min(x, y). *)
Min(x, y) == IF x <= y THEN x ELSE y

---------------------------------------------------------------------------
LedgerSnapshotConsistency ==
    \A u \in Users : accounts[u].exists => accounts[u].balance = LedgerBalance(u)

(* C2's case: a posting that lost the race for its user's Account row was   *)
(* retried and committed on top of the winner's posting.                    *)
LedgerSnapshotConsistencyWitness ==
    \E u \in Users, r \in Handlers :
        /\ Cardinality(RowsOf(u)) = 2
        /\ req[r].pc = "done"
        /\ req[r].userId = u
        /\ req[r].status = HTTP_OK
        /\ req[r].attempt = 2
        /\ req[r].error = ""

(* C6 as stated: when NumFired DEBITs of amount a were fired concurrently   *)
(* at a balance b and all have completed, exactly min(NumFired, b div a)    *)
(* are answered 200, every other one 400 InsufficientBalance, and the       *)
(* balance is b minus a times the number of successes.                      *)
FiredDebitsSplit ==
    (AllDone(NumFired) /\ req[1].type = DEBIT) =>
        /\ Cardinality(Answered(NumFired, HTTP_OK))
              = Min(NumFired, FiredSeed \div FiredAmount)
        /\ \A r \in Fired \ Answered(NumFired, HTTP_OK) :
              req[r].status = HTTP_BAD_REQUEST /\ req[r].error = "INSUFFICIENT_BALANCE"
        /\ accounts[SameUser].balance
              = FiredSeed - FiredAmount * Cardinality(Answered(NumFired, HTTP_OK))

(* C7 as stated: when NumFired CREDITs of amount a without key were fired   *)
(* concurrently at a fresh user and all have completed, every one is        *)
(* answered 200 and the balance is NumFired * a.                            *)
FiredCreditsAllPosted ==
    (AllDone(NumFired) /\ req[1].type = CREDIT) =>
        /\ \A r \in Fired : req[r].status = HTTP_OK
        /\ accounts[SameUser].exists
        /\ accounts[SameUser].balance = NumFired * FiredAmount

(* C8: in every committed state the version of every Account row equals the *)
(* number of committed Transactions of its user (the first posting creates  *)
(* the row at version 1, every later one adds exactly 1).                   *)
VersionCountsCommits ==
    \A u \in Users :
        /\ accounts[u].exists => accounts[u].version = Cardinality(RowsOf(u))
        /\ ~accounts[u].exists => RowsOf(u) = {}

(* C8's case: a user's Account row that two postings have written. *)
VersionCountsCommitsWitness ==
    \E u \in Users : accounts[u].exists /\ accounts[u].version = 2

AtMostOneTransactionPerKey ==
    \A k \in Keys : Cardinality(RowsWithKey(k)) <= 1

(* C4, amended: a Transaction that carries key k is committed only while no *)
(* idempotency record of k exists, one at a time, and its commit creates    *)
(* the record; so at most one Transaction is committed per lifetime of k's  *)
(* record, and another one only after the sweeper deleted the expired       *)
(* record.                                                                  *)
OneTransactionPerKeyRecord ==
    [][\A k \in Keys :
         RowsWithKey(k)' # RowsWithKey(k) =>
             /\ ~idempotencyKeys[k].exists
             /\ idempotencyKeys'[k].exists
             /\ Cardinality(RowsWithKey(k)') = Cardinality(RowsWithKey(k)) + 1]_vars

(* C4's case: after a clock advance a posting with a key was committed and  *)
(* a second posting with the key was answered from its record.              *)
OneTransactionPerKeyRecordWitness ==
    \E k \in Keys, r \in Handlers :
        /\ now = TickHours
        /\ Cardinality(RowsWithKey(k)) = 1
        /\ idempotencyKeys[k].exists
        /\ idempotencyKeys[k].expiresAt = now + FINAL_TTL_HOURS
        /\ req[r].pc = "done"
        /\ req[r].idempotencyKey = k
        /\ req[r].error = "IDEMPOTENCY_DUPLICATE"

OverdrawingDebitAlwaysRejected ==
    [][\A r \in Handlers :
         (/\ req[r].pc = "begin"
          /\ req[r].type = DEBIT
          /\ req[r].amount > getBalance(req[r].userId)
          /\ req'[r].pc = "done")
         => req'[r].status = HTTP_BAD_REQUEST]_vars

(* C9, amended: a DEBIT attempt that reaches the balance validation (it     *)
(* carries no key, or it inserted the reservation of its key) with an       *)
(* amount above the balance it read, a user without Account reading 0, is   *)
(* rolled back and answered 400 InsufficientBalance: no Transaction is      *)
(* appended, no Account row changes, and no idempotency record of its key   *)
(* remains.                                                                 *)
OverdrawingDebitRolledBack ==
    [][\A r \in Handlers :
         /\ (/\ req[r].pc = "read"
             /\ req[r].type = DEBIT
             /\ req[r].amount > CurrentBalance(r)
             /\ req'[r] # req[r])
            => /\ req'[r].pc = "insufficient"
               /\ db' = db
               /\ req[r].idempotencyKey # NoKey =>
                      ~idempotencyKeys'[req[r].idempotencyKey].exists
               /\ \A o \in Handlers : ~HoldsKey(o, req[r].idempotencyKey)'
         /\ (req[r].pc = "insufficient" /\ req'[r] # req[r])
            => /\ req'[r].pc = "done"
               /\ req'[r].status = HTTP_BAD_REQUEST
               /\ req'[r].error = "INSUFFICIENT_BALANCE"
               /\ req'[r].type = DEBIT
               /\ db' = db]_vars

(* C9's case: a DEBIT with a key by a user without Account was answered 400 *)
(* InsufficientBalance, and neither an Account nor a record of the key      *)
(* exists.                                                                  *)
OverdrawingDebitRolledBackWitness ==
    \E r \in Handlers :
        /\ req[r].pc = "done"
        /\ req[r].type = DEBIT
        /\ req[r].status = HTTP_BAD_REQUEST
        /\ req[r].error = "INSUFFICIENT_BALANCE"
        /\ req[r].idempotencyKey # NoKey
        /\ ~idempotencyKeys[req[r].idempotencyKey].exists
        /\ ~accounts[req[r].userId].exists
        /\ RowsOf(req[r].userId) = {}

(* C10: a posting with amount <= 0 is answered 400 InvalidAmount before any *)
(* attempt of the DB transaction and before the idempotency probe, and it   *)
(* leaves the three tables unchanged, with or without a key; no committed   *)
(* Transaction has an amount <= 0.                                          *)
InvalidAmountRejectedFirst ==
    [][/\ \A r \in Handlers :
            (req'[r] # req[r] /\ req'[r].amount <= 0)
            => /\ req'[r].pc = "done"
               /\ req'[r].status = HTTP_BAD_REQUEST
               /\ req'[r].error = "INVALID_AMOUNT"
               /\ req'[r].attempt = 0
               /\ req'[r].snapKey = NoIdempotencyKey
               /\ db' = db
       /\ \A i \in DOMAIN transactions' : transactions'[i].amount > 0]_vars

(* C10's case: a posting of amount 0 with a key was answered 400            *)
(* InvalidAmount while no record of its key exists.                         *)
InvalidAmountRejectedFirstWitness ==
    \E r \in Handlers :
        /\ req[r].pc = "done"
        /\ req[r].amount <= 0
        /\ req[r].error = "INVALID_AMOUNT"
        /\ req[r].idempotencyKey # NoKey
        /\ ~idempotencyKeys[req[r].idempotencyKey].exists

(* C11: a Ledger write whose external token is absent or rejected by        *)
(* Identity is answered 401 by the guard, before any attempt of the write   *)
(* protocol, and changes none of the three tables; the tables change only   *)
(* by the commit of a request whose token Identity accepts.                 *)
AuthMediation ==
    [][/\ db' # db =>
            \E r \in AuthHandlers :
                req[r].pc = "commit" /\ validateUserJwt(req[r].token).valid
       /\ \A r \in AuthHandlers :
            (/\ req'[r].kind = "POST"
             /\ req'[r].token = NoToken \/ ~validateUserJwt(req'[r].token).valid)
            => /\ db' = db
               /\ \/ req'[r].pc = "guard"
                  \/ /\ req'[r].pc = "done"
                     /\ req'[r].status = HTTP_UNAUTHORIZED
                     /\ req'[r].attempt = 0]_vars

(* C11's cases: a CREDIT without bearer token, and a CREDIT whose token is  *)
(* signed with the right secret but expired, answered 401 with empty tables. *)
AuthMediationWitness ==
    \E r \in AuthHandlers :
        /\ req[r].pc = "done"
        /\ req[r].kind = "POST"
        /\ req[r].status = HTTP_UNAUTHORIZED
        /\ req[r].type = CREDIT
        /\ req[r].amount > 0
        /\ \/ req[r].token = NoToken
           \/ req[r].token.secret = JWT_SECRET /\ req[r].token.expired
        /\ transactions = <<>>
        /\ \A u \in Users : ~accounts[u].exists

LinearizableBalance ==
    [][/\ \A r \in Readers :
            (/\ req[r].pc \in {"balance", "aggregate"}
             /\ req[r].userId \in Users
             /\ req'[r].pc = "done")
            => /\ req'[r].status = HTTP_OK
               /\ req'[r].body.amount = LedgerBalance(req[r].userId)
               /\ db' = db
       /\ \A r \in Handlers :
            (req'[r] # req[r] /\ req'[r].pc = "done" /\ req'[r].status = HTTP_OK)
            => /\ req'[r].body.id \in DOMAIN transactions'
               /\ ResponseOf(transactions'[req'[r].body.id]) = req'[r].body
       /\ Len(transactions') >= Len(transactions)
       /\ SubSeq(transactions', 1, Len(transactions)) = transactions]_vars

(* C13's case: a GET balance was answered with the committed balance while  *)
(* an open DB transaction holds a different balance for the user.           *)
LinearizableBalanceWitness ==
    \E r \in Readers, w \in Handlers :
        /\ req[r].pc = "done"
        /\ req[r].kind = "BALANCE"
        /\ req[r].status = HTTP_OK
        /\ req[r].body.amount > 0
        /\ req[r].body.amount = LedgerBalance(req[r].userId)
        /\ HoldsAccount(w, req[r].userId)
        /\ NewBalance(w) # req[r].body.amount

(* C19: GET balance answers with the balance of the Account row when the    *)
(* user has one; otherwise it goes on to the Transaction log and answers    *)
(* with the user's credits minus debits, 0 for a user without Transactions; *)
(* either value is the log-derived balance, and no table changes.           *)
BalanceReadPaths ==
    [][\A r \in Readers :
         LET u == req[r].userId
         IN /\ (req[r].pc = "balance" /\ u \in Users /\ req'[r] # req[r])
               => /\ db' = db
                  /\ IF accounts[u].exists
                     THEN /\ req'[r].pc = "done"
                          /\ req'[r].status = HTTP_OK
                          /\ req'[r].body.amount = accounts[u].balance
                          /\ req'[r].body.amount = LedgerBalance(u)
                     ELSE req'[r].pc = "aggregate"
            /\ (req[r].pc = "aggregate" /\ req'[r] # req[r])
               => /\ db' = db
                  /\ req'[r].pc = "done"
                  /\ req'[r].status = HTTP_OK
                  /\ req'[r].body.amount = LedgerBalance(u)
                  /\ RowsOf(u) = {} => req'[r].body.amount = 0]_vars

(* C19's case: a user without Account row and without Transactions was     *)
(* answered 0 while the other user has a committed posting.                 *)
BalanceReadPathsWitness ==
    \E r \in Readers :
        /\ req[r].pc = "done"
        /\ req[r].kind = "BALANCE"
        /\ req[r].status = HTTP_OK
        /\ req[r].body.amount = 0
        /\ req[r].userId \in Users
        /\ ~accounts[req[r].userId].exists
        /\ \E u \in Users \ {req[r].userId} : accounts[u].exists /\ accounts[u].balance > 0

(* C14: a posting runs its DB transaction at most maxAttempts = 10 times and *)
(* is always answered; a serialization failure of an attempt before the     *)
(* 10th sends it to the backoff and to one more attempt, one of the 10th    *)
(* attempt is answered 500; a request answered so has committed no          *)
(* Transaction: the log holds one row per posting answered with success.    *)
RetryBudget ==
    /\ [](\A r \in Fired :
            /\ req[r].attempt <= maxAttempts
            /\ req[r].pc = "backoff" => req[r].attempt < maxAttempts
            /\ (req[r].pc = "done" /\ req[r].error = PRISMA_SERIALIZATION_ERROR_CODE)
               => (req[r].attempt = maxAttempts /\ req[r].status = HTTP_INTERNAL_ERROR))
    /\ [](Len(transactions) =
            Cardinality(Answered(NumFired, HTTP_OK))
            + Cardinality({i \in DOMAIN transactions : transactions[i] = SeedTransaction(FiredSeed)}))
    /\ [][\A r \in Fired :
            (req[r].pc = "upsert" /\ AccountConflict(r) /\ req'[r] # req[r])
            => /\ db' = db
               /\ IF req[r].attempt < maxAttempts
                  THEN req'[r].pc = "backoff" /\ req'[r].attempt = req[r].attempt
                  ELSE /\ req'[r].pc = "done"
                       /\ req'[r].status = HTTP_INTERNAL_ERROR]_vars
    /\ [][\A r \in Fired :
            (req[r].pc = "backoff" /\ req'[r] # req[r])
            => (req'[r].pc = "begin" /\ req'[r].attempt = req[r].attempt + 1)]_vars
    /\ <>[]AllDone(NumFired)

(* C14's case: a posting failed its 10th attempt on a serialization failure *)
(* and was answered 500 while the ten others are committed.                 *)
RetryBudgetWitness ==
    \E r \in Fired :
        /\ req[r].pc = "done"
        /\ req[r].attempt = maxAttempts
        /\ req[r].status = HTTP_INTERNAL_ERROR
        /\ req[r].error = PRISMA_SERIALIZATION_ERROR_CODE
        /\ Cardinality(Answered(NumFired, HTTP_OK)) = NumFired - 1

(* C15: a posting whose key has a record with expires_at <= now is not      *)
(* answered as a duplicate but goes on to reserve the key, and the          *)
(* reservation succeeds -- the posting goes on to read the account --       *)
(* whether or not the sweeper has removed the expired row.                  *)
ExpiredKeyReclaimed ==
    [][\A r \in Handlers :
         LET k == req[r].idempotencyKey
         IN /\ (/\ req[r].pc = "begin"
                /\ k # NoKey
                /\ idempotencyKeys[k].exists
                /\ idempotencyKeys[k].expiresAt <= now
                /\ req'[r] # req[r])
               => req'[r].pc = "reserve"
            /\ (/\ req[r].pc = "reserve"
                /\ req[r].snapKey.exists
                /\ req[r].snapKey.expiresAt <= req[r].startedAt
                /\ idempotencyKeys[k] = req[r].snapKey
                /\ req'[r] # req[r])
               => req'[r].pc = "read"]_vars

(* C16: ValidateExternalToken answers a call exactly when the call carries  *)
(* a JWT signed with the internal secret, unexpired and with the internal   *)
(* flag true; every other call gets Unauthorized and no answer about the    *)
(* user token.                                                              *)
InternalCallersOnly ==
    \A r \in AuthHandlers :
        (req[r].pc = "done" /\ req[r].kind = "VALIDATE")
        => IF /\ req[r].internalToken # NoToken
              /\ req[r].internalToken.secret = INTERNAL_JWT_SECRET
              /\ ~req[r].internalToken.expired
              /\ req[r].internalToken.internal
           THEN /\ req[r].status = HTTP_CREATED
                /\ req[r].answer.status = HTTP_CREATED
           ELSE /\ req[r].status = HTTP_UNAUTHORIZED
                /\ req[r].answer = [NoAnswer EXCEPT !.status = HTTP_UNAUTHORIZED]

(* C16's case: a call that presented a valid user token as its own          *)
(* credential, asking about a valid user token, was refused.                *)
InternalCallersOnlyWitness ==
    \E r \in AuthHandlers :
        /\ req[r].pc = "done"
        /\ req[r].kind = "VALIDATE"
        /\ req[r].internalToken \in VerifiedTokens
        /\ req[r].token \in VerifiedTokens
        /\ req[r].status = HTTP_UNAUTHORIZED
        /\ ~req[r].answer.valid

(* C17: Identity accepts a token -- on its own endpoints and in the answer  *)
(* of ValidateExternalToken -- only when the token is signed with the       *)
(* external secret, unexpired and carries both sub and email; an accepted   *)
(* token yields user_id = sub.                                              *)
IdentityChecksSubAndEmail ==
    \A r \in AuthHandlers :
        LET Passes == /\ JwtVerify(req[r].token, JWT_SECRET)
                      /\ req[r].token.sub # Undefined
                      /\ req[r].token.email
        IN /\ (req[r].pc = "done" /\ req[r].kind = "PROTECTED")
              => /\ (req[r].status = HTTP_OK) <=> Passes
                 /\ req[r].status = HTTP_OK => req[r].userId = req[r].token.sub
           /\ (req[r].pc = "done" /\ req[r].kind = "VALIDATE"
                 /\ req[r].status = HTTP_CREATED)
              => /\ req[r].answer.valid <=> Passes
                 /\ req[r].answer.valid => req[r].answer.user_id = req[r].token.sub

(* C18: when the call of Identity fails on the network or in decoding the   *)
(* response, validateRemoteToken returns valid=false for every token        *)
(* instead of throwing, the request is answered 401 by the guard before any *)
(* attempt of the write protocol, and none of the tables changes.           *)
RemoteFailureUnauthorized ==
    [][/\ \A token \in Presented, transport \in Transports \ {"ok"} :
            validateRemoteToken(token, transport) = [valid |-> FALSE, userId |-> Undefined]
       /\ \A r \in AuthHandlers :
            (req[r].pc = "guard" /\ req'[r].transport \in Transports \ {"ok"})
            => /\ req'[r].pc = "done"
               /\ req'[r].status = HTTP_UNAUTHORIZED
               /\ req'[r].attempt = 0
               /\ req'[r].userId = ""
               /\ db' = db]_vars

(* C18's case: a CREDIT with a token Identity would accept was answered 401 *)
(* because the connection to Identity failed.                               *)
RemoteFailureUnauthorizedWitness ==
    \E r \in AuthHandlers :
        /\ req[r].pc = "done"
        /\ req[r].kind = "POST"
        /\ req[r].type = CREDIT
        /\ req[r].amount > 0
        /\ req[r].token \in VerifiedTokens
        /\ req[r].token.sub \in Users
        /\ req[r].transport = "network"
        /\ req[r].status = HTTP_UNAUTHORIZED
        /\ transactions = <<>>

SweeperDeletesExpired ==
    [][\A r \in Sweepers :
         req'[r] # req[r]
         => /\ \A k \in SweepKeys :
                 idempotencyKeys'[k] =
                    IF idempotencyKeys[k].exists /\ idempotencyKeys[k].expiresAt < now
                    THEN NoIdempotencyKey
                    ELSE idempotencyKeys[k]
            /\ req'[r].count =
                  Cardinality({k \in SweepKeys : idempotencyKeys[k].exists})
                  - Cardinality({k \in SweepKeys : idempotencyKeys'[k].exists})
            /\ transactions' = transactions
            /\ accounts' = accounts]_vars

(* C21's case: the sweeper deleted the record of k1 and returned 1, while   *)
(* the record of k2, which expires at this very moment, and both            *)
(* Transactions are still there.                                            *)
SweeperDeletesExpiredWitness ==
    \E r \in Sweepers :
        /\ req[r].pc = "done"
        /\ req[r].kind = "SWEEP"
        /\ req[r].count = 1
        /\ ~idempotencyKeys["k1"].exists
        /\ idempotencyKeys["k2"].exists
        /\ idempotencyKeys["k2"].expiresAt = now
        /\ RowsWithKey("k1") # {}
        /\ RowsWithKey("k2") # {}

(* C22: a registration that ends while its email belongs to a User is      *)
(* answered 409 EmailConflict and creates no User, however the steps of     *)
(* concurrent registrations interleave; no two Users have the same email.   *)
RegisterEmailConflict ==
    [][/\ \A r \in Handlers :
            (/\ req[r].pc \in {"findByEmail", "create"}
             /\ req'[r].pc = "done"
             /\ findByEmail(req[r].dto.email) # {})
            => /\ req'[r].status = HTTP_CONFLICT
               /\ users' = users
       /\ \A e \in Emails :
            Cardinality({id \in Users : users'[id].state = "live" /\ users'[id].email = e}) <= 1
      ]_vars

(* C23: a ReadSelf, UpdateSelf or DeleteSelf whose authenticated principal  *)
(* is not the id of the target User is answered 403, returns no view and    *)
(* goes no further; the row of a User changes or disappears only in a step  *)
(* of a request whose principal is that User.                               *)
OwnerOnly ==
    [][\A r \in AuthHandlers :
         /\ (/\ Free(r)
             /\ req'[r] # req[r]
             /\ req'[r].kind \in {"READ", "UPDATE", "DELETE"}
             /\ req'[r].userId \in Users
             /\ req'[r].userId # req'[r].target
             /\ req'[r].target \in Live)
            => /\ req'[r].pc = "done"
               /\ req'[r].status = 403
               /\ req'[r].view = <<>>
         /\ \A id \in Users :
              (users[id].state = "live" /\ users'[id] # users[id])
              => (req[r].userId = id /\ req[r].target = id)]_vars

(* C24: a login whose email no User has, or whose password is not the one   *)
(* the User's stored digest was made of, is answered 401 InvalidCredentials *)
(* with no token; every other login is answered with a token signed with    *)
(* the external secret whose claims are sub = the User's id and email = the *)
(* User's email.                                                            *)
LoginIssuesToken ==
    [][\A r \in AuthHandlers :
         (Free(r) /\ req'[r] # req[r] /\ req'[r].kind = "LOGIN")
         => LET dto == req'[r].dto
                known == {id \in Users : /\ users[id].state = "live"
                                         /\ users[id].email = dto.email
                                         /\ users[id].password = bcrypt_hash(dto.password)}
            IN /\ req'[r].pc = "done"
               /\ users' = users
               /\ IF known = {}
                  THEN /\ req'[r].status = HTTP_UNAUTHORIZED
                       /\ req'[r].error = "Invalid credentials"
                       /\ req'[r].view = <<>>
                  ELSE \E id \in known :
                          /\ req'[r].status = HTTP_CREATED
                          /\ req'[r].view.access_token.secret = JWT_SECRET
                          /\ ~req'[r].view.access_token.expired
                          /\ req'[r].view.access_token.payload =
                                [sub |-> id, email |-> users[id].email]
                          /\ req'[r].view.user.id = id]_vars

(* C24's case: a User who changed the password logged in with the new one   *)
(* and got a token with the User's id and email.                            *)
LoginIssuesTokenWitness ==
    \E r \in AuthHandlers, id \in Users :
        /\ req[r].pc = "done"
        /\ req[r].kind = "LOGIN"
        /\ req[r].status = HTTP_CREATED
        /\ req[r].dto.password = Password2
        /\ users[id].state = "live"
        /\ users[id].email = req[r].dto.email
        /\ req[r].view.access_token.payload = [sub |-> id, email |-> req[r].dto.email]

(* C25: no response of Register, Login, ReadSelf, UpdateSelf or list users  *)
(* has a member named password or password_hash, at the top level, in the   *)
(* user object of a login, in the claims of its token, or in an item of the *)
(* list.                                                                    *)
PasswordsNeverLeak ==
    \A r \in AuthHandlers :
        LET view == req[r].view
            Exposes(object) == {"password", "password_hash"} \cap DOMAIN object # {}
        IN (req[r].pc = "done" /\ view # <<>>)
           => CASE req[r].kind \in {"REGISTER", "READ", "UPDATE"} ->
                       /\ ~Exposes(view)
                       /\ DOMAIN view = {"id", "email", "first_name", "last_name"}
                [] req[r].kind = "LOGIN" ->
                       /\ ~Exposes(view)
                       /\ ~Exposes(view.user)
                       /\ ~Exposes(view.access_token.payload)
                [] req[r].kind = "LIST_USERS" ->
                       \A id \in DOMAIN view : ~Exposes(view[id])
                [] OTHER -> FALSE

(* C25's case: a User changed the password and the response of the update   *)
(* is the user view, while the table holds the new digest.                  *)
PasswordsNeverLeakWitness ==
    \E r \in AuthHandlers :
        /\ req[r].pc = "done"
        /\ req[r].kind = "UPDATE"
        /\ req[r].status = HTTP_OK
        /\ req[r].dto.password = Password2
        /\ users[req[r].target].password = bcrypt_hash(Password2)
        /\ req[r].view.id = req[r].target

(* C26: a posting whose reservation insert fails on the unique index of the *)
(* key, because a row of the key is committed, rolls back and goes to the   *)
(* backoff and another attempt instead of being answered with an error; an  *)
(* attempt after the first that finds the finalized, unexpired record of    *)
(* its key is answered 200 with the response cached in that record.         *)
ReservationConflictRetried ==
    [][\A r \in Handlers :
         LET k == req[r].idempotencyKey
         IN /\ (/\ req[r].pc = "reserve"
                /\ KeyTaken(idempotencyKeys[k])
                /\ req[r].attempt < maxAttempts
                /\ req'[r] # req[r])
               => /\ req'[r].pc = "backoff"
                  /\ db' = db
            /\ (/\ req[r].pc = "begin"
                /\ req[r].attempt > 1
                /\ k # NoKey
                /\ IsDuplicate(idempotencyKeys[k])
                /\ req'[r] # req[r])
               => /\ req'[r].pc = "done"
                  /\ req'[r].status = HTTP_OK
                  /\ JSON_stringify(req'[r].body) = idempotencyKeys[k].response
                  /\ db' = db]_vars

(* C27: no committed idempotency record has the response __PENDING__: a     *)
(* committed record holds the JSON of a response and a Transaction with its *)
(* key is committed with it; no request has read the sentinel in its probe, *)
(* and no replay has failed on parsing the cached response.                 *)
NoPendingCommitted ==
    /\ \A k \in Keys :
          idempotencyKeys[k].exists
          => /\ idempotencyKeys[k].response # PENDING
             /\ JSON_parse(idempotencyKeys[k].response).ok
             /\ RowsWithKey(k) # {}
    /\ \A r \in Handlers :
          /\ req[r].snapKey.exists => req[r].snapKey.response # PENDING
          /\ req[r].error # "SyntaxError"
          /\ (req[r].pc = "done" /\ req[r].error = "IDEMPOTENCY_DUPLICATE")
             => (req[r].status = HTTP_OK /\ req[r].body.id \in RowsWithKey(req[r].idempotencyKey))

(* C27's case: a request that lost the reservation of its key to a          *)
(* concurrent one was answered, on a later attempt, from the finalized      *)
(* record.                                                                  *)
NoPendingCommittedWitness ==
    \E r \in Handlers :
        /\ req[r].pc = "done"
        /\ req[r].error = "IDEMPOTENCY_DUPLICATE"
        /\ req[r].attempt > 1
        /\ req[r].status = HTTP_OK
        /\ LiveFinalized(idempotencyKeys[req[r].idempotencyKey])

(* The outcomes of C28, as the handler answers them. *)
TerminalError(r) ==
    /\ req[r].pc = "done"
    /\ req[r].error \in {"INSUFFICIENT_BALANCE", "INVALID_AMOUNT", "IDEMPOTENCY_DUPLICATE"}

(* C28: InsufficientBalance, InvalidAmount and IdempotencyDuplicate are     *)
(* terminal. The attempt counter of a request grows only in the backoff of  *)
(* the retry loop, by one; the backoff is entered only by a serialization   *)
(* failure of the reservation or of the Account upsert, with the tables     *)
(* unchanged; the body starts only on a new request or after a backoff; a   *)
(* step that ends in one of the three outcomes keeps the attempt counter,   *)
(* an insufficient balance is answered without another attempt, and an      *)
(* answered request is never taken up again.                                *)
TerminalErrorsNotRetried ==
    [][\A r \in Handlers :
          /\ req'[r].attempt # req[r].attempt
             => \/ req[r].pc = "backoff" /\ req'[r].attempt = req[r].attempt + 1
                \/ Free(r) /\ req'[r].attempt \in {0, 1}
          /\ (req'[r].pc = "backoff" /\ req[r].pc # "backoff")
             => /\ db' = db
                /\ \/ /\ req[r].pc = "reserve"
                      /\ idempotencyKeys[req[r].idempotencyKey].exists
                      /\ idempotencyKeys[req[r].idempotencyKey] # req[r].snapKey
                   \/ req[r].pc = "upsert" /\ AccountConflict(r)
          /\ (req'[r].pc = "begin" /\ req[r].pc # "begin")
             => (Free(r) \/ req[r].pc = "backoff")
          /\ (req[r].pc = "insufficient" /\ req'[r] # req[r])
             => /\ TerminalError(r)'
                /\ req'[r].error = "INSUFFICIENT_BALANCE"
                /\ req'[r].attempt = req[r].attempt
          /\ (TerminalError(r)' /\ ~Free(r))
             => /\ req'[r].attempt = req[r].attempt
                /\ db' = db
          /\ (TerminalError(r) /\ req'[r] # req[r])
             => /\ req'[r].attempt \in {0, 1}
                /\ req'[r].pc \in {"begin", "done"}
          /\ (TerminalError(r) /\ req[r].error = "INVALID_AMOUNT")
             => req[r].attempt = 0]_vars

(* C28's case: a request that was re-attempted after a serialization        *)
(* failure ended, on the later attempt, in a replay of the idempotent       *)
(* response, while the request that won the key was answered with its own   *)
(* posting.                                                                 *)
TerminalErrorsNotRetriedWitness ==
    \E r \in Handlers, o \in Handlers :
        /\ r # o
        /\ TerminalError(r)
        /\ req[r].error = "IDEMPOTENCY_DUPLICATE"
        /\ req[r].attempt = 2
        /\ req[o].pc = "done" /\ req[o].error = ""
        /\ req[o].idempotencyKey = req[r].idempotencyKey
        /\ req[o].body = req[r].body

(* The three tables agree: an Account row exists exactly for the users with *)
(* Transaction rows, with their number as version and their sum as balance; *)
(* a committed idempotency record names a committed Transaction of its key. *)
TablesAgree ==
    /\ \A u \in Users :
          /\ accounts[u].exists <=> RowsOf(u) # {}
          /\ accounts[u].exists
             => /\ accounts[u].version = Cardinality(RowsOf(u))
                /\ accounts[u].balance = LedgerBalance(u)
    /\ \A k \in Keys :
          idempotencyKeys[k].exists
          => /\ JSON_parse(idempotencyKeys[k].response).ok
             /\ JSON_parse(idempotencyKeys[k].response).value.id \in RowsWithKey(k)

(* The step posts the Transaction of request r for user u with key k: the   *)
(* row, the Account update and, with a key, the idempotency record, and     *)
(* nothing else.                                                            *)
Posted(r, u, k) ==
    /\ req[r].pc = "commit" /\ req[r].userId = u /\ req[r].idempotencyKey = k
    /\ req'[r].pc = "done" /\ req'[r].error = ""
    /\ req'[r].body.id = Len(transactions')
    /\ transactions'[Len(transactions')].userId = u
    /\ transactions'[Len(transactions')].idempotencyKey = k
    /\ accounts'[u].exists
    /\ accounts'[u].version = (IF accounts[u].exists THEN accounts[u].version ELSE 0) + 1
    /\ accounts'[u].balance = LedgerBalance(u)'
    /\ \A o \in Users \ {u} : accounts'[o] = accounts[o]
    /\ IF k = NoKey THEN idempotencyKeys' = idempotencyKeys
       ELSE /\ idempotencyKeys'[k].exists
            /\ JSON_parse(idempotencyKeys'[k].response).value.id = Len(transactions')
            /\ \A o \in Keys \ {k} : idempotencyKeys'[o] = idempotencyKeys[o]

(* C29: every posting is all-or-nothing. The three tables agree in every    *)
(* state; the Transaction and Account tables change only in a step that     *)
(* appends one Transaction row together with the Account update of its user *)
(* and the idempotency record of its key; apart from that the idempotency   *)
(* table changes only by the sweeper; a step in which a request fails,      *)
(* backs off or stays inside its DB transaction leaves the three tables as  *)
(* they were.                                                               *)
AllOrNothing ==
    [][/\ TablesAgree /\ TablesAgree'
       /\ (transactions' # transactions \/ accounts' # accounts)
          => /\ Len(transactions') = Len(transactions) + 1
             /\ SubSeq(transactions', 1, Len(transactions)) = transactions
             /\ \E r \in Handlers, u \in Users, k \in Keys \cup {NoKey} : Posted(r, u, k)
       /\ (idempotencyKeys' # idempotencyKeys /\ transactions' = transactions)
          => /\ req' = req
             /\ \A k \in Keys :
                   idempotencyKeys'[k] # idempotencyKeys[k]
                   => Expired(idempotencyKeys[k]) /\ ~idempotencyKeys'[k].exists
       /\ \A r \in Handlers :
             (req'[r] # req[r] /\ ~(req'[r].pc = "done" /\ req'[r].error = ""))
             => db' = db]_vars

(* C29's case: one request was rolled back for an insufficient balance      *)
(* inside its DB transaction and another has committed a posting with an    *)
(* idempotency key; the tables hold the committed posting whole and nothing *)
(* of the failed one.                                                       *)
AllOrNothingWitness ==
    \E r \in Handlers, o \in Handlers :
        /\ req[r].pc = "done" /\ req[r].error = "INSUFFICIENT_BALANCE"
        /\ req[r].attempt = 1
        /\ req[o].pc = "done" /\ req[o].error = "" /\ req[o].idempotencyKey # NoKey
        /\ idempotencyKeys[req[o].idempotencyKey].exists
        /\ Len(transactions) = 1
        /\ accounts[req[o].userId].version = 1
        /\ ~accounts[req[r].userId].exists

(* The steps of one attempt, in the order of createTransactionWithLock:     *)
(* begin is before the idempotency probe, reserve before the __PENDING__    *)
(* insert, read before the snapshot read, the balance validation and the    *)
(* Transaction append, upsert before the Account upsert, commit before the  *)
(* finalization of the key and the commit.                                  *)
StepsAfter(pc) ==
    CASE pc = "begin" -> {"reserve", "read", "done"}
      [] pc = "reserve" -> {"read", "backoff", "done"}
      [] pc = "read" -> {"upsert", "insufficient", "done"}
      [] pc = "upsert" -> {"commit", "backoff", "done"}
      [] pc = "commit" -> {"done"}
      [] OTHER -> {"idle", "begin", "reserve", "read", "upsert", "commit", "backoff",
                   "insufficient", "done"}

(* C30: within one attempt the steps run in the order idempotency probe,    *)
(* __PENDING__ reservation, snapshot read, balance validation, Transaction  *)
(* append, Account upsert, idempotency finalization. A request with a key   *)
(* passes the probe to the reservation and the reservation to the snapshot  *)
(* read, a request without a key passes from the probe to the snapshot      *)
(* read; the Account upsert follows a validation that passed, and only the  *)
(* finalization writes the tables. When the probe finds a completed key     *)
(* that has not expired, or the reservation fails, the attempt ends in that *)
(* step with the tables unchanged: it holds no reservation and reaches      *)
(* neither the Transaction append nor the Account upsert.                   *)
StepOrder ==
    [][\A r \in Handlers :
          /\ req'[r].pc # req[r].pc => req'[r].pc \in StepsAfter(req[r].pc)
          /\ (req[r].pc \in {"begin", "reserve", "read", "upsert", "commit"}
              /\ req'[r] # req[r])
             => /\ req'[r].pc # req[r].pc
                /\ req'[r].attempt = req[r].attempt
                /\ (db' # db => req[r].pc = "commit")
          /\ (req[r].pc = "begin" /\ req'[r].pc = "reserve")
             => req[r].idempotencyKey # NoKey
          /\ (req[r].pc = "begin" /\ req'[r].pc = "read")
             => req[r].idempotencyKey = NoKey
          /\ req'[r].pc \in {"read", "upsert", "commit"}
             => \A o \in Handlers \ {r} : ~HoldsKey(o, req[r].idempotencyKey)'
          /\ req'[r].pc \in {"upsert", "commit"}
             => ~InsufficientBalance(NewBalance(r))'
          /\ (/\ req[r].pc = "begin" /\ req'[r] # req[r]
              /\ req[r].idempotencyKey # NoKey
              /\ idempotencyKeys[req[r].idempotencyKey].exists
              /\ idempotencyKeys[req[r].idempotencyKey].expiresAt > now)
             => /\ req'[r].pc = "done"
                /\ req'[r].error = "IDEMPOTENCY_DUPLICATE"
                /\ db' = db
          /\ (req[r].pc = "reserve" /\ req'[r].pc # "read" /\ req'[r] # req[r])
             => /\ req'[r].pc \in {"backoff", "done"}
                /\ req'[r].pc = "done" => req'[r].status = HTTP_INTERNAL_ERROR
                /\ ~HoldsKey(r, req[r].idempotencyKey)'
                /\ db' = db]_vars

(* C30's case: one request went through every step and committed with a    *)
(* key, and the probe of a second request, on its first attempt, found the  *)
(* completed key: one Transaction is posted.                                *)
StepOrderWitness ==
    \E r \in Handlers, o \in Handlers :
        /\ req[r].pc = "done" /\ req[r].error = "" /\ req[r].idempotencyKey # NoKey
        /\ req[o].pc = "done" /\ req[o].error = "IDEMPOTENCY_DUPLICATE"
        /\ req[o].attempt = 1
        /\ req[o].idempotencyKey = req[r].idempotencyKey
        /\ Len(transactions) = 1
        /\ accounts[req[r].userId].version = 1

(* Request r was answered 200 with its own posting, not with a replay. *)
AnsweredPosting(r) ==
    /\ req[r].pc = "done"
    /\ req[r].status = HTTP_OK
    /\ req[r].error = ""
    /\ req[r].kind \in {"", "POST"}

(* Request r was answered 400, 401 or 500. *)
AnsweredError(r) ==
    /\ req[r].pc = "done"
    /\ req[r].status \in {HTTP_BAD_REQUEST, HTTP_UNAUTHORIZED, HTTP_INTERNAL_ERROR}

(* C31: responses and commits correspond one to one. A request answered 200 *)
(* with its own posting names a committed Transaction that carries the      *)
(* returned id, the principal of the request and the requested type and     *)
(* amount, and no other answered posting names it; the step that gives such *)
(* an answer appends exactly that one Transaction, and every Transaction is *)
(* appended by such a step; a step that answers 400, 401 or 500 leaves the  *)
(* Transaction and Account tables unchanged, and so does every step of a    *)
(* request before its answer.                                               *)
ResponsesMatchCommits ==
    [][/\ \A r \in Handlers :
            AnsweredPosting(r)'
            => /\ req'[r].body.id \in DOMAIN transactions'
               /\ LET t == transactions'[req'[r].body.id]
                  IN /\ t.id = req'[r].body.id
                     /\ t.userId = req'[r].userId /\ req'[r].body.user_id = req'[r].userId
                     /\ t.type = req'[r].type /\ req'[r].body.type = req'[r].type
                     /\ t.amount = req'[r].amount /\ req'[r].body.amount = req'[r].amount
               /\ \A o \in Handlers \ {r} :
                     AnsweredPosting(o)' => req'[o].body.id # req'[r].body.id
       /\ \A r \in Handlers :
            (AnsweredPosting(r)' /\ req[r].pc # "done")
            => /\ Len(transactions') = Len(transactions) + 1
               /\ req'[r].body.id = Len(transactions')
       /\ (transactions' # transactions \/ accounts' # accounts)
          => /\ Len(transactions') = Len(transactions) + 1
             /\ SubSeq(transactions', 1, Len(transactions)) = transactions
             /\ \E r \in Handlers :
                   /\ req[r].pc # "done" /\ AnsweredPosting(r)'
                   /\ req'[r].body.id = Len(transactions')
       /\ \A r \in Handlers :
            (req'[r] # req[r] /\ ~AnsweredPosting(r)')
            => (transactions' = transactions /\ accounts' = accounts)
       /\ \A r \in Handlers :
            (AnsweredError(r)' /\ req'[r] # req[r]) => db' = db]_vars

(* C31's case: two postings of one user were answered 200, the second after *)
(* a serialization failure and a retry, each with the id of its own         *)
(* committed Transaction.                                                   *)
ResponsesMatchCommitsWitness ==
    \E r \in Handlers, o \in Handlers :
        /\ AnsweredPosting(r) /\ AnsweredPosting(o)
        /\ req[r].userId = req[o].userId
        /\ req[r].attempt = 2 /\ req[o].attempt = 1
        /\ req[r].body.id = 2 /\ req[o].body.id = 1
        /\ Len(transactions) = 2

(* C32: the response to a posting never discloses another user's data: the  *)
(* user_id of every 200 response to a posting, a replay included, is the    *)
(* principal of the request.                                                *)
ResponseOfPrincipal ==
    \A r \in Handlers :
        (/\ req[r].pc = "done"
         /\ req[r].status = HTTP_OK
         /\ req[r].kind \in {"", "POST"})
        => req[r].body.user_id = req[r].userId

(* C33: two concurrent first postings of a brand-new user produce neither   *)
(* two Account rows nor a lost update. An Account row exists exactly when   *)
(* the user has a committed Transaction, and its version counts them; the   *)
(* row is created once, with version 1, by a DB transaction whose snapshot  *)
(* saw no row, while no other open DB transaction has written the row of    *)
(* that user; every commit writes over the row its snapshot read; no step   *)
(* deletes an Account.                                                      *)
OneAccountPerUser ==
    [][/\ \A u \in Users :
            /\ accounts'[u].exists <=> RowsOf(u)' # {}
            /\ accounts'[u].exists => accounts'[u].version = Cardinality(RowsOf(u)')
            /\ accounts[u].exists => accounts'[u].exists
            /\ (~accounts[u].exists /\ accounts'[u].exists)
               => /\ accounts'[u].version = 1
                  /\ Cardinality(RowsOf(u)') = 1
                  /\ \E r \in Handlers :
                        /\ req[r].pc = "commit" /\ req[r].userId = u
                        /\ ~req[r].snapAccount.exists
                        /\ \A o \in Handlers \ {r} :
                              ~(req[o].pc = "commit" /\ req[o].userId = u)
       /\ \A r \in Handlers :
            (req[r].pc = "commit" /\ req'[r].pc = "done")
            => /\ req[r].snapAccount = accounts[req[r].userId]
               /\ accounts'[req[r].userId].version = CurrentVersion(r) + 1]_vars

(* C33's case: two first postings of a brand-new user ran concurrently; one *)
(* has committed and created the Account row, the other failed at its       *)
(* upsert with a serialization failure and waits for its retry.             *)
OneAccountPerUserWitness ==
    \E r \in Handlers, o \in Handlers :
        /\ req[r].pc = "backoff" /\ req[r].attempt = 1
        /\ req[r].idempotencyKey = NoKey
        /\ req[o].pc = "done" /\ req[o].error = "" /\ req[o].status = HTTP_OK
        /\ req[o].userId = req[r].userId
        /\ accounts[req[r].userId].version = 1
        /\ Len(transactions) = 1

(* C34: the Transaction log is append-only. No step of a posting, a replay  *)
(* or the sweeper changes or removes a committed Transaction: every row of  *)
(* the log is still there, at its place and with its fields, after the      *)
(* step; and every committed Transaction has an amount above zero, a type   *)
(* CREDIT or DEBIT, and its place in the log as id.                         *)
AppendOnlyLog ==
    [][/\ Len(transactions') >= Len(transactions)
       /\ \A i \in DOMAIN transactions : transactions'[i] = transactions[i]
       /\ \A i \in DOMAIN transactions' :
            /\ transactions'[i].amount > 0
            /\ transactions'[i].type \in {CREDIT, DEBIT}
            /\ transactions'[i].id = i]_vars

(* C34's case: a keyed posting was committed and replayed, its idempotency  *)
(* record has expired and was swept, and a later posting was appended: the  *)
(* first Transaction is still in the log with its key.                      *)
AppendOnlyLogWitness ==
    /\ Len(transactions) = 2
    /\ transactions[1].idempotencyKey \in Keys
    /\ ~idempotencyKeys[transactions[1].idempotencyKey].exists
    /\ transactions[2].idempotencyKey = NoKey
    /\ \E r \in Handlers :
          /\ req[r].pc = "done" /\ req[r].error = "IDEMPOTENCY_DUPLICATE"
          /\ req[r].body.id = 1

(* The Transactions of user u, in the order of the log. *)
TransactionsOf(userId) == SelectSeq(transactions, LAMBDA t : t.userId = userId)

(* C35: a posting by user u changes only u's rows. Every step of a request  *)
(* of u, whatever the outcome of the request, leaves the Account row and    *)
(* the Transactions of every other user as they were; a row of a user       *)
(* changes only in the commit of a posting of that user.                    *)
OnlyOwnRows ==
    [][/\ \A r \in Handlers :
            req'[r] # req[r]
            => \A v \in Users \ {req'[r].userId} :
                  /\ accounts'[v] = accounts[v]
                  /\ TransactionsOf(v)' = TransactionsOf(v)
       /\ \A v \in Users :
            (accounts'[v] # accounts[v] \/ TransactionsOf(v)' # TransactionsOf(v))
            => \E r \in Handlers :
                  /\ req[r].pc = "commit" /\ req[r].userId = v
                  /\ req'[r].pc = "done" /\ req'[r].body.user_id = v]_vars

(* C35's case: a posting of one user has committed while a posting of the   *)
(* other user was open; the open one still sees the other user's rows as    *)
(* its snapshot read them and is ready to commit.                           *)
OnlyOwnRowsWitness ==
    \E r \in Handlers, o \in Handlers :
        /\ req[r].pc = "done" /\ req[r].error = "" /\ req[r].status = HTTP_OK
        /\ req[o].pc = "commit"
        /\ req[o].userId # req[r].userId
        /\ accounts[req[r].userId].version = 1
        /\ ~accounts[req[o].userId].exists
        /\ TransactionsOf(req[o].userId) = <<>>
        /\ Len(TransactionsOf(req[r].userId)) = 1

(* C36: the INSUFFICIENT_BALANCE error describes the rejected debit: the    *)
(* requested amount it reports is the amount of the request, the current    *)
(* balance it reports is below that amount, and the shortage, the requested *)
(* amount minus the reported balance, is strictly positive.                 *)
InsufficientDetailsDescribeDebit ==
    \A r \in Handlers :
        (req[r].pc = "done" /\ req[r].error = "INSUFFICIENT_BALANCE")
        => /\ req[r].details.requestedAmount = req[r].amount
           /\ req[r].details.currentBalance < req[r].amount
           /\ req[r].details.shortage = req[r].amount - req[r].details.currentBalance
           /\ req[r].details.shortage > 0

(* C37: every committed idempotency record is finalized with expires_at     *)
(* equal to its finalization time plus 24 hours, and a record is treated as *)
(* a duplicate exactly while expires_at > now. A step that writes a record  *)
(* writes a response that is not __PENDING__ and the expiry now + 24 h; no  *)
(* committed record expires later than 24 h from now; the probe of a keyed  *)
(* request ends in the replay of the cached response exactly when the       *)
(* record of the key exists and its expiry is after now.                    *)
FinalizedExpiry ==
    [][/\ \A k \in Keys :
            /\ (idempotencyKeys'[k] # idempotencyKeys[k] /\ idempotencyKeys'[k].exists)
               => /\ idempotencyKeys'[k].response # PENDING
                  /\ idempotencyKeys'[k].expiresAt = now + FINAL_TTL_HOURS
                  /\ now' = now
            /\ idempotencyKeys'[k].exists
               => idempotencyKeys'[k].expiresAt <= now' + FINAL_TTL_HOURS
       /\ \A r \in Handlers :
            (req[r].pc = "begin" /\ req'[r] # req[r] /\ req[r].idempotencyKey # NoKey)
            => ((req'[r].pc = "done" /\ req'[r].error = "IDEMPOTENCY_DUPLICATE")
                <=> (/\ idempotencyKeys[req[r].idempotencyKey].exists
                     /\ idempotencyKeys[req[r].idempotencyKey].expiresAt > now))]_vars

(* C37's case: the record of a key expires at this very hour and is still   *)
(* in the table; the probe of a request with the key did not take it for a  *)
(* duplicate and went on to the reservation.                                *)
FinalizedExpiryWitness ==
    \E r \in Handlers :
        /\ req[r].pc = "reserve"
        /\ req[r].startedAt = now
        /\ idempotencyKeys[req[r].idempotencyKey].exists
        /\ idempotencyKeys[req[r].idempotencyKey].expiresAt = now
        /\ req[r].snapKey = idempotencyKeys[req[r].idempotencyKey]

(* The step in which the guard of the Ledger decides on request r. *)
GuardDecides(r) == req[r].pc = "guard" /\ req'[r].pc # "guard"

(* C38, as stated: after a User has been deleted, the external tokens       *)
(* issued to that User are no longer accepted, so a deleted user cannot     *)
(* post to the Ledger: a posting whose token names a deleted User is        *)
(* answered 401 by the guard.                                               *)
DeletedUserRejected ==
    [][\A r \in Posters :
          (/\ GuardDecides(r)
           /\ req[r].token # NoToken
           /\ users[req[r].token.sub].state = "deleted")
          => /\ req'[r].pc = "done"
             /\ req'[r].status = HTTP_UNAUTHORIZED]_vars

(* C38, amended: ValidateExternalToken answers valid=true for every         *)
(* external token whose signature verifies and whose exp has not passed,    *)
(* whether or not its User still exists: a posting passes the guard, as the *)
(* user_id of the token, exactly when it carries such a token, also after   *)
(* the User has been deleted, and a Transaction is committed only for a     *)
(* user_id that has registered.                                             *)
TokenOutlivesUser ==
    [][/\ \A r \in Posters :
            GuardDecides(r)
            => /\ (req'[r].status # HTTP_UNAUTHORIZED)
                  <=> (req[r].token # NoToken /\ ~req[r].token.expired)
               /\ req'[r].status # HTTP_UNAUTHORIZED
                  => /\ req'[r].userId = req[r].token.sub
                     /\ users[req[r].token.sub].state \in {"live", "deleted"}
               /\ (/\ req[r].token # NoToken /\ ~req[r].token.expired
                   /\ users[req[r].token.sub].state = "deleted")
                  => req'[r].pc = "begin"
       /\ \A i \in DOMAIN transactions' : users'[transactions'[i].userId].state # "free"]_vars

(* C38's case: a User has been deleted by a DELETE answered 200, and the    *)
(* one committed Transaction was posted with that User's token, as that     *)
(* user_id.                                                                 *)
TokenOutlivesUserWitness ==
    \E r \in Posters, d \in AuthHandlers :
        /\ req[r].pc = "done" /\ req[r].kind = "POST" /\ req[r].status = HTTP_OK
        /\ users[req[r].userId].state = "deleted"
        /\ req[d].pc = "done" /\ req[d].kind = "DELETE" /\ req[d].status = HTTP_OK
        /\ req[d].target = req[r].userId
        /\ Len(transactions) = 1
        /\ transactions[1].userId = req[r].userId

(* C39: the retry loop sleeps only between attempts, never after the last   *)
(* one, and the sleep after failed attempt n (1 <= n <= 9) lies in          *)
(* [2^(n-1)*100, 2^(n-1)*100 + 50) milliseconds. A timer is set only after  *)
(* an attempt failed at the Account upsert with a serialization failure,    *)
(* for an attempt from 1 to 9 and with a delay in that range; when it fires *)
(* the next attempt starts; a request in its tenth attempt sets no timer,   *)
(* and a request that was answered sleeps no more.                          *)
BackoffBetweenAttempts ==
    [][\A r \in Fired :
          /\ (req'[r].pc = "backoff" /\ req[r].pc # "backoff")
             => /\ req[r].pc = "upsert" /\ AccountConflict(r)
                /\ req[r].attempt < maxAttempts
          /\ (req'[r].pc = "sleeping" /\ req[r].pc # "sleeping")
             => /\ req[r].pc = "backoff"
                /\ req[r].attempt \in 1..(maxAttempts - 1)
                /\ req'[r].attempt = req[r].attempt
                /\ req'[r].backoff >= (2 ^ (req[r].attempt - 1)) * 100 * RandomSteps
                /\ req'[r].backoff < ((2 ^ (req[r].attempt - 1)) * 100 + 50) * RandomSteps
          /\ (req[r].pc = "sleeping" /\ req'[r] # req[r])
             => /\ req'[r].pc = "begin"
                /\ req'[r].attempt = req[r].attempt + 1
          /\ req'[r].pc # "sleeping" => req'[r].backoff = 0
          /\ req[r].attempt = maxAttempts => req'[r].pc \notin {"backoff", "sleeping"}
          /\ req[r].pc = "done" => req'[r] = req[r]]_vars

(* C39's case: a request sleeps after its ninth failed attempt with the     *)
(* largest jitter, nine postings of the others having committed.            *)
BackoffBetweenAttemptsWitness ==
    \E r \in Fired :
        /\ req[r].pc = "sleeping"
        /\ req[r].attempt = maxAttempts - 1
        /\ req[r].backoff = computeBackoffMs(maxAttempts - 1, RandomSteps - 1)
        /\ Cardinality({o \in Fired : req[o].pc = "done" /\ req[o].status = HTTP_OK})
             = maxAttempts - 1

====
